---- MODULE Spec2Model ----
(***************************************************************************)
(* Windowed ranking engine of rolling-leaderboard: RedisLeaderboardStore   *)
(* (adapters/redis.store.ts) and MemoryLeaderboardStore                    *)
(* (adapters/memory.store.ts) driven in lockstep by the same ingest and    *)
(* rebuild calls, with the key resolvers of the default configuration, of  *)
(* buildBundle (declarative.ts) and of bundleFromSchema (schema.ts).       *)
(*                                                                         *)
(* Redis is modelled as one keyspace of sorted sets with expiry: a key     *)
(* exists iff its sorted set has a member, MULTI/EXEC applies its queued   *)
(* commands in order without interleaving, ZUNIONSTORE replaces the        *)
(* destination (dropping its TTL) or deletes it when the union is empty.   *)
(* A Date is the number of minutes since 2026-01-01T00:00Z (January only). *)
(***************************************************************************)
EXTENDS Integers, Sequences, FiniteSets, TLC

VARIABLES
  cfg,        \* which configuration the stores were constructed with
  redis,      \* Redis keyspace: key -> [z: member -> score, exp: seconds to live]
  windows,    \* MemoryLeaderboardStore.windows: key -> insertion-ordered ScoreMap
  ranks,      \* MemoryLeaderboardStore.ranks:   key -> insertion-ordered ScoreMap
  written,    \* history: the deltas each zIncrBy / zAdd wrote, per key and user
  lastBuild,  \* history: per timeframe, the last completed rebuild
  lastResult, \* how the last store call settled: "ok" or "rejected"
  nIngest,    \* number of ingest calls so far
  nBuild,     \* number of rebuild calls so far
  calls,      \* the calls that overlap in time: one record per call, in start order
  svc,        \* the leaderboard service: configuration, construction, last outcome
  keyed,      \* two identifier tuples and the keys formatted for them
  builder     \* the fluent schema builder: its state and the outcome of the last call

\* what the store calls that run one at a time leave alone
aside == <<calls, svc, keyed, builder>>

vars == <<cfg, redis, windows, ranks, written, lastBuild, lastResult, nIngest, nBuild,
          calls, svc, keyed, builder>>

\* everything but the builder
runtime == <<cfg, redis, windows, ranks, written, lastBuild, lastResult, nIngest, nBuild,
             calls, svc, keyed>>

-----------------------------------------------------------------------------
(* Bounds *)

\* ingestWindows and buildRankingFromWindows calls of one behaviour
MaxCalls == 4

-----------------------------------------------------------------------------
(* Configuration *)

Users == <<"u1", "u2">>
UserSet == {Users[i] : i \in 1..Len(Users)}

\* Redis orders members of equal score lexicographically; "u1" < "u2".
\* The empty string comes before every other member.
LexRank(u) == IF u = "" THEN 0 ELSE CHOOSE i \in 1..Len(Users) : Users[i] = u

Categories == <<"profit", "best_streak", "low_score">>
CategorySet == {Categories[i] : i \in 1..Len(Categories)}

Timeframes == <<"day", "lifetime">>
TimeframeSet == {Timeframes[i] : i \in 1..Len(Timeframes)}

ConfigKinds == {"default", "declarative", "schema"}

prefix == "lb"

\* categoryAggregation as the configurations pass it; profit is left out so
\* that aggregationForCategory falls back to "sum".
categoryAggregation == [best_streak |-> "max", low_score |-> "min"]

TimeframeSpecs ==
  [day      |-> [type |-> "rolling", unit |-> "hour", size |-> 2],
   lifetime |-> [type |-> "all",     unit |-> "none", size |-> 0]]

\* a declarative definition whose two timeframes share the unit "hour"
SharingTimeframeSpecs ==
  [day      |-> [type |-> "rolling", unit |-> "hour", size |-> 2],
   lifetime |-> [type |-> "rolling", unit |-> "hour", size |-> 3]]

\* definition.timeframes[timeframe]
timeframeSpec(kind, timeframe) ==
  IF kind = "sharing" THEN SharingTimeframeSpecs[timeframe] ELSE TimeframeSpecs[timeframe]

\* leaderboards[board].timeframes of the schema definition.
SchemaBoardTimeframes ==
  [profit      |-> <<"day", "lifetime">>,
   best_streak |-> <<"lifetime">>,
   low_score   |-> <<"day", "lifetime">>]

\* The declarative definition has no per-metric timeframes.
BoardTimeframes(kind, board) ==
  IF kind = "schema" THEN SchemaBoardTimeframes[board] ELSE Timeframes

NoExpiry == -1
MinutesPerHour == 60
MinutesPerDay == 1440

-----------------------------------------------------------------------------
(* Generic helpers *)

Range(s) == {s[i] : i \in 1..Len(s)}

EmptyMap == [x \in {} |-> 0]

Max2(a, b) == IF a >= b THEN a ELSE b
Min2(a, b) == IF a <= b THEN a ELSE b

RECURSIVE SumOver(_, _)
SumOver(S, f) ==
  IF S = {} THEN 0
  ELSE LET x == CHOOSE y \in S : TRUE IN f[x] + SumOver(S \ {x}, f)

SetMax(S) == CHOOSE x \in S : \A y \in S : y <= x
SetMin(S) == CHOOSE x \in S : \A y \in S : x <= y

RECURSIVE Flatten(_)
Flatten(ss) == IF ss = <<>> THEN <<>> ELSE Head(ss) \o Flatten(Tail(ss))

\* [f(s[1]), ..., f(s[n])] for an operator given as a function
MapSeq(s, f) == [i \in 1..Len(s) |-> f[s[i]]]

\* insertion-ordered de-duplication, as `new Set(...)` / `[...set]` does
RECURSIVE Unique(_)
Unique(s) ==
  IF s = <<>> THEN <<>>
  ELSE LET init == Unique(SubSeq(s, 1, Len(s) - 1))
           last == s[Len(s)]
       IN IF last \in Range(init) THEN init ELSE Append(init, last)

-----------------------------------------------------------------------------
(* Dates and window timestamps (declarative.ts / schema.ts) *)

Digits == <<"0", "1", "2", "3", "4", "5", "6", "7", "8", "9">>

pad2(value) == Digits[(value \div 10) + 1] \o Digits[(value % 10) + 1]

getUTCDate(date) == (date \div MinutesPerDay) + 1
getUTCHours(date) == (date % MinutesPerDay) \div MinutesPerHour

tokenForUnit(unit) ==
  IF unit = "hour" THEN "h" ELSE IF unit = "day" THEN "d" ELSE "m"

snapUtc(date, unit) ==
  IF unit = "hour" THEN date - (date % MinutesPerHour)
  ELSE IF unit = "day" THEN date - (date % MinutesPerDay)
  ELSE 0

\* variant: the cursor steps the other way
addUtcForward(date, unit, delta) ==
  IF unit = "hour" THEN date - delta * MinutesPerHour
  ELSE IF unit = "day" THEN date - delta * MinutesPerDay
  ELSE date

addUtc(date, unit, delta) ==
  IF unit = "hour" THEN date + delta * MinutesPerHour
  ELSE IF unit = "day" THEN date + delta * MinutesPerDay
  ELSE date

formatWindowTs(date, token) ==
  IF token = "h"
    THEN "2026-01-" \o pad2(getUTCDate(date)) \o ":" \o pad2(getUTCHours(date))
  ELSE IF token = "d"
    THEN "2026-01-" \o pad2(getUTCDate(date))
  ELSE "2026-01"

RECURSIVE rollingDatesFrom(_, _, _)
rollingDatesFrom(cursor, unit, remaining) ==
  IF remaining = 0 THEN <<>>
  ELSE <<cursor>> \o rollingDatesFrom(addUtc(cursor, unit, -1), unit, remaining - 1)

\* variant: the loop stops one bucket early
rollingDatesOneShort(spec, date) ==
  rollingDatesFrom(snapUtc(date, spec.unit), spec.unit, Max2(1, spec.size - 1))

rollingDates(spec, date) ==
  rollingDatesFrom(snapUtc(date, spec.unit), spec.unit, Max2(1, spec.size))

-----------------------------------------------------------------------------
(* Key resolution *)

\* RedisLeaderboardStore.windowKey / rankKey
windowKey(timeframe, category) ==
  prefix \o ":window:" \o timeframe \o ":" \o category

rankKey(timeframe, category) ==
  prefix \o ":rank:" \o timeframe \o ":" \o category

\* keys.rank / keys.window of buildBundle and bundleFromSchema
bundleRankKey(timeframe, metric) ==
  prefix \o ":ranking:" \o timeframe \o ":" \o metric

bundleWindowKey(token, date, metric) ==
  LET ts == IF token = "all" THEN "" ELSE ":" \o formatWindowTs(date, token)
  IN prefix \o ":window:" \o token \o ts \o ":" \o metric

tokenOfTimeframe(kind, timeframe) ==
  IF timeframeSpec(kind, timeframe).type = "all" THEN "all"
  ELSE tokenForUnit(timeframeSpec(kind, timeframe).unit)

\* variant: one token per timeframe, a shared one as often as it is used
windowTokensPerTimeframe(kind, board) ==
  MapSeq(BoardTimeframes(kind, board),
         [tf \in TimeframeSet |-> tokenOfTimeframe(kind, tf)])

\* ingestTokens (declarative.ts) / boardTokens.get(board) (schema.ts)
windowTokens(kind, board) ==
  Unique(MapSeq(BoardTimeframes(kind, board),
                [tf \in TimeframeSet |-> tokenOfTimeframe(kind, tf)]))

canonicalIngestTimeframe == Timeframes[1]

\* a configuration that overrides resolveBuildSourceKeys alone: best_streak
\* takes part in "day" before RetireDate (Jan 2 01:00) and no longer from then
RetireDate == 1500

boardHasTimeframe(kind, board, timeframe) ==
  timeframe \in Range(BoardTimeframes(kind, board))

resolveRankKey(kind, timeframe, category) ==
  IF kind \in {"default", "retiring"} THEN rankKey(timeframe, category)
  ELSE bundleRankKey(timeframe, category)

\* variant: a delta is written into the rank key
resolveIngestKeysIntoRank(kind, timeframe, category, date) ==
  <<resolveRankKey(kind, timeframe, category)>>

resolveIngestKeys(kind, timeframe, category, date) ==
  IF kind \in {"default", "retiring"} THEN <<windowKey(timeframe, category)>>
  ELSE IF timeframe # canonicalIngestTimeframe THEN <<>>
  ELSE LET tokens == windowTokens(kind, category)
       IN [i \in 1..Len(tokens) |-> bundleWindowKey(tokens[i], date, category)]

resolveBuildSourceKeys(kind, timeframe, category, date) ==
  IF kind = "default" THEN <<windowKey(timeframe, category)>>
  ELSE IF kind = "retiring"
    THEN IF timeframe = "day" /\ category = "best_streak" /\ date >= RetireDate
           THEN <<>> ELSE <<windowKey(timeframe, category)>>
  ELSE IF ~boardHasTimeframe(kind, category, timeframe) THEN <<>>
  ELSE IF timeframeSpec(kind, timeframe).type = "all"
    THEN <<bundleWindowKey("all", date, category)>>
  ELSE LET spec == timeframeSpec(kind, timeframe)
           dates == rollingDates(spec, date)
       IN [i \in 1..Len(dates) |->
             bundleWindowKey(tokenForUnit(spec.unit), dates[i], category)]

aggregationForCategory(category) ==
  IF category \in DOMAIN categoryAggregation
    THEN categoryAggregation[category] ELSE "sum"

\* variant: the default branch answers "MAX", so a sum category is merged by
\* maximum
aggregateOptionDefaultMax(category) ==
  LET strategy == aggregationForCategory(category)
  IN IF strategy = "min" THEN "MIN" ELSE "MAX"

\* variant: the policy is ignored and every category is merged by "SUM"
aggregateOptionAlwaysSum(category) == "SUM"

aggregateOption(category) ==
  LET strategy == aggregationForCategory(category)
  IN IF strategy = "max" THEN "MAX"
     ELSE IF strategy = "min" THEN "MIN" ELSE "SUM"

\* MemoryLeaderboardStore.windowKey / rankKey (no prefix)
memWindowKey(timeframe, category) == "window:" \o timeframe \o ":" \o category
memRankKey(timeframe, category) == "rank:" \o timeframe \o ":" \o category

-----------------------------------------------------------------------------
(* Numbers: a score is a JavaScript number / Redis double.  Finite values   *)
(* are integers; +Infinity and -Infinity are the two values +-Infinity.     *)

Infinity == 1000

IsNaNSum(a, b) ==
  \/ a = Infinity /\ b = -Infinity
  \/ a = -Infinity /\ b = Infinity

\* a + b for doubles when the sum is not NaN
AddNum(a, b) ==
  IF a = Infinity \/ b = Infinity THEN Infinity
  ELSE IF a = -Infinity \/ b = -Infinity THEN -Infinity
  ELSE a + b

-----------------------------------------------------------------------------
(* Redis sorted-set commands over the keyspace db *)

Exists(db, key) == key \in DOMAIN db

ZSetOf(db, key) == IF Exists(db, key) THEN db[key].z ELSE EmptyMap

ExpOf(db, key) == IF Exists(db, key) THEN db[key].exp ELSE NoExpiry

PutMember(db, key, member, score) ==
  (key :> [z |-> (member :> score) @@ ZSetOf(db, key), exp |-> ExpOf(db, key)]) @@ db

DelKey(db, key) == [k \in DOMAIN db \ {key} |-> db[k]]

\* ZINCRBY key increment member: fails when the resulting score is NaN
zIncrByFails(db, key, increment, member) ==
  /\ member \in DOMAIN ZSetOf(db, key)
  /\ IsNaNSum(ZSetOf(db, key)[member], increment)

zIncrBy(db, key, increment, member) ==
  LET z == ZSetOf(db, key)
  IN PutMember(db, key, member,
               IF member \in DOMAIN z THEN AddNum(z[member], increment)
               ELSE increment)

\* variant: a plain ZADD, which overwrites the score
zAddOverwrite(db, key, member, score) == PutMember(db, key, member, score)

\* ZADD key GT score member: adds a new member, raises an existing score only
zAddGT(db, key, member, score) ==
  LET z == ZSetOf(db, key)
  IN IF member \in DOMAIN z /\ ~(score > z[member]) THEN db
     ELSE PutMember(db, key, member, score)

\* ZADD key LT score member: adds a new member, lowers an existing score only
zAddLT(db, key, member, score) ==
  LET z == ZSetOf(db, key)
  IN IF member \in DOMAIN z /\ ~(score < z[member]) THEN db
     ELSE PutMember(db, key, member, score)

\* variant: the aggregation keeps the score of the last source only
AggregateLast(option, a, b) == b

\* one step of the ZUNIONSTORE aggregation; SUM of +inf and -inf is 0
Aggregate(option, a, b) ==
  IF option = "MAX" THEN Max2(a, b)
  ELSE IF option = "MIN" THEN Min2(a, b)
  ELSE IF IsNaNSum(a, b) THEN 0 ELSE AddNum(a, b)

RECURSIVE UnionFold(_, _, _, _)
UnionFold(db, keys, option, acc) ==
  IF keys = <<>> THEN acc
  ELSE LET z == ZSetOf(db, Head(keys))
           merged == [m \in DOMAIN acc \cup DOMAIN z |->
                        IF m \notin DOMAIN z THEN acc[m]
                        ELSE IF m \notin DOMAIN acc THEN z[m]
                        ELSE Aggregate(option, acc[m], z[m])]
       IN UnionFold(db, Tail(keys), option, merged)

\* variant: the union is folded onto the destination's previous contents
zUnionStoreOntoDest(db, dest, keys, option) ==
  LET result == UnionFold(db, keys, option, ZSetOf(db, dest))
  IN IF DOMAIN result = {} THEN DelKey(db, dest)
     ELSE (dest :> [z |-> result, exp |-> NoExpiry]) @@ db

\* variant: an empty union leaves the destination as it was
zUnionStoreKeepsDest(db, dest, keys, option) ==
  LET result == UnionFold(db, keys, option, EmptyMap)
  IN IF DOMAIN result = {} THEN db
     ELSE (dest :> [z |-> result, exp |-> NoExpiry]) @@ db

\* ZUNIONSTORE dest numkeys key... AGGREGATE option: the destination is
\* overwritten (its TTL is discarded), or deleted when the union is empty
zUnionStore(db, dest, keys, option) ==
  LET result == UnionFold(db, keys, option, EmptyMap)
  IN IF DOMAIN result = {} THEN DelKey(db, dest)
     ELSE (dest :> [z |-> result, exp |-> NoExpiry]) @@ db

\* EXPIRE key seconds (seconds > 0)
\* variant: EXPIRE is acknowledged and sets no expiry
expireIgnored(db, key, ttlSeconds) == db

expire(db, key, ttlSeconds) ==
  IF Exists(db, key) THEN [db EXCEPT ![key].exp = ttlSeconds] ELSE db

\* TTL key: -2 when the key does not exist, -1 when it has no expiry
ttl(db, key) ==
  IF ~Exists(db, key) THEN -2 ELSE db[key].exp

\* members in ascending sorted-set order: by score, then lexicographically
RECURSIVE ZOrder(_)
ZOrder(z) ==
  IF DOMAIN z = {} THEN <<>>
  ELSE LET first == CHOOSE m \in DOMAIN z :
                      \A o \in DOMAIN z :
                        \/ z[m] < z[o]
                        \/ z[m] = z[o] /\ LexRank(m) <= LexRank(o)
       IN <<first>> \o ZOrder([o \in DOMAIN z \ {first} |-> z[o]])

Reverse(s) == [i \in 1..Len(s) |-> s[Len(s) + 1 - i]]

\* ZRANGE key start stop [REV] WITHSCORES, with Redis index normalisation
zRangeWithScores(db, key, start, stop, rev) ==
  LET z == ZSetOf(db, key)
      order == IF rev THEN Reverse(ZOrder(z)) ELSE ZOrder(z)
      n == Len(order)
      s0 == IF start < 0 THEN Max2(0, n + start) ELSE start
      e0 == IF stop < 0 THEN n + stop ELSE Min2(stop, n - 1)
  IN IF s0 > e0 \/ s0 >= n THEN <<>>
     ELSE [i \in 1..(e0 - s0 + 1) |->
             [value |-> order[s0 + i], score |-> z[order[s0 + i]]]]

\* null / undefined, and a present value
None == <<>>
Some(v) == <<v>>
ValueOf(opt) == opt[1]

IndexOf(s, x) == CHOOSE i \in 1..Len(s) : s[i] = x

zRank(db, key, member) ==
  IF member \in DOMAIN ZSetOf(db, key)
    THEN Some(IndexOf(ZOrder(ZSetOf(db, key)), member) - 1) ELSE None

zRevRank(db, key, member) ==
  IF member \in DOMAIN ZSetOf(db, key)
    THEN Some(IndexOf(Reverse(ZOrder(ZSetOf(db, key))), member) - 1) ELSE None

zScore(db, key, member) ==
  IF member \in DOMAIN ZSetOf(db, key) THEN Some(ZSetOf(db, key)[member]) ELSE None

zmScore(db, key, members) ==
  [i \in 1..Len(members) |-> zScore(db, key, members[i])]

\* MULTI ... EXEC: the queued commands run in order with nothing in between;
\* a command that fails at run time is skipped, the others still run, and
\* the call rejects.
ApplyCommand(db, cmd) ==
  IF cmd.op = "zIncrBy" THEN zIncrBy(db, cmd.key, cmd.value, cmd.member)
  ELSE IF cmd.op = "zAddGT" THEN zAddGT(db, cmd.key, cmd.member, cmd.value)
  ELSE IF cmd.op = "zAddLT" THEN zAddLT(db, cmd.key, cmd.member, cmd.value)
  ELSE IF cmd.op = "zUnionStore" THEN zUnionStore(db, cmd.dest, cmd.keys, cmd.option)
  ELSE IF cmd.op = "expire" THEN expire(db, cmd.key, cmd.ttl)
  ELSE DelKey(db, cmd.key)

CommandFails(db, cmd) ==
  cmd.op = "zIncrBy" /\ zIncrByFails(db, cmd.key, cmd.value, cmd.member)

RECURSIVE exec(_, _)
exec(db, cmds) ==
  IF cmds = <<>> THEN [db |-> db, failed |-> FALSE]
  ELSE IF CommandFails(db, Head(cmds))
    THEN [db |-> exec(db, Tail(cmds)).db, failed |-> TRUE]
  ELSE exec(ApplyCommand(db, Head(cmds)), Tail(cmds))

-----------------------------------------------------------------------------
(* RedisLeaderboardStore *)

\* delta[category] ?? 0
deltaValue(delta, category) ==
  IF category \in DOMAIN delta THEN delta[category] ELSE 0

\* config.resolveWindowTtlSeconds?.(...): none of the configurations sets it
resolveWindowTtlSeconds(kind, timeframe, category, date) == None

\* variant: a delta of zero queues its command like any other
KeyCommandsWithZeros(kind, timeframe, category, key, entries, date) ==
  LET strategy == aggregationForCategory(category)
      write(entry) ==
        LET value == deltaValue(entry[2], category)
        IN IF strategy = "sum"
             THEN <<[op |-> "zIncrBy", key |-> key, member |-> entry[1], value |-> value]>>
           ELSE IF strategy = "max"
             THEN <<[op |-> "zAddGT", key |-> key, member |-> entry[1], value |-> value]>>
           ELSE <<[op |-> "zAddLT", key |-> key, member |-> entry[1], value |-> value]>>
  IN Flatten([i \in 1..Len(entries) |-> write(entries[i])])

\* the commands ingestWindows queues for one resolved key
KeyCommands(kind, timeframe, category, key, entries, date) ==
  LET strategy == aggregationForCategory(category)
      write(entry) ==
        LET value == deltaValue(entry[2], category)
        IN IF value = 0 THEN <<>>
           ELSE IF strategy = "sum"
             THEN <<[op |-> "zIncrBy", key |-> key, member |-> entry[1], value |-> value]>>
           ELSE IF strategy = "max"
             THEN <<[op |-> "zAddGT", key |-> key, member |-> entry[1], value |-> value]>>
           ELSE <<[op |-> "zAddLT", key |-> key, member |-> entry[1], value |-> value]>>
      windowTtl == resolveWindowTtlSeconds(kind, timeframe, category, date)
  IN Flatten([i \in 1..Len(entries) |-> write(entries[i])])
     \o (IF windowTtl # None /\ ValueOf(windowTtl) > 0
           THEN <<[op |-> "expire", key |-> key, ttl |-> ValueOf(windowTtl)]>>
           ELSE <<>>)

\* the MULTI ingestWindows builds: timeframes x categories x keys x entries
IngestCommands(kind, entries, date) ==
  Flatten([t \in 1..Len(Timeframes) |->
    Flatten([c \in 1..Len(Categories) |->
      LET keys == resolveIngestKeys(kind, Timeframes[t], Categories[c], date)
      IN Flatten([k \in 1..Len(keys) |->
           KeyCommands(kind, Timeframes[t], Categories[c], keys[k], entries, date)])])])

\* variant: a category without source keys is skipped
BuildCommandsSkipEmpty(kind, timeframe, date, ttlSeconds) ==
  Flatten([c \in 1..Len(Categories) |->
    LET sources == resolveBuildSourceKeys(kind, timeframe, Categories[c], date)
        dest == resolveRankKey(kind, timeframe, Categories[c])
    IN IF Len(sources) = 0 THEN <<>>
       ELSE <<[op |-> "zUnionStore", dest |-> dest, keys |-> sources,
               option |-> aggregateOption(Categories[c])]>>
            \o (IF ttlSeconds > 0
                  THEN <<[op |-> "expire", key |-> dest, ttl |-> ttlSeconds]>>
                  ELSE <<>>)])

\* the MULTI buildRankingFromWindows builds: one del or zUnionStore(+expire)
\* per category
BuildCommands(kind, timeframe, date, ttlSeconds) ==
  Flatten([c \in 1..Len(Categories) |->
    LET sources == resolveBuildSourceKeys(kind, timeframe, Categories[c], date)
        dest == resolveRankKey(kind, timeframe, Categories[c])
    IN IF Len(sources) = 0 THEN <<[op |-> "del", key |-> dest]>>
       ELSE <<[op |-> "zUnionStore", dest |-> dest, keys |-> sources,
               option |-> aggregateOption(Categories[c])]>>
            \o (IF ttlSeconds > 0
                  THEN <<[op |-> "expire", key |-> dest, ttl |-> ttlSeconds]>>
                  ELSE <<>>)])

redisIngestWindows(db, kind, entries, date) ==
  exec(db, IngestCommands(kind, entries, date))

redisBuildRankingFromWindows(db, kind, timeframe, date, ttlSeconds) ==
  exec(db, BuildCommands(kind, timeframe, date, ttlSeconds))

redisGetTopRankedUsers(db, kind, timeframe, category, limit, descending) ==
  LET key == resolveRankKey(kind, timeframe, category)
  IN IF ttl(db, key) = -2 THEN None
     ELSE LET rows == zRangeWithScores(db, key, 0, limit - 1, descending)
          IN Some([idx \in 1..Len(rows) |->
                [userId |-> rows[idx].value, score |-> rows[idx].score, rank |-> idx]])

\* variant: zRank and zRevRank are swapped
redisGetUserRankSwapped(db, kind, userId, timeframe, category, descending) ==
  LET key == resolveRankKey(kind, timeframe, category)
      rank == IF descending THEN zRank(db, key, userId) ELSE zRevRank(db, key, userId)
      score == zScore(db, key, userId)
  IN IF rank = None THEN None
     ELSE Some([userId |-> userId,
                score |-> IF score = None THEN 0 ELSE ValueOf(score),
                rank |-> ValueOf(rank) + 1])

redisGetUserRank(db, kind, userId, timeframe, category, descending) ==
  LET key == resolveRankKey(kind, timeframe, category)
      rank == IF descending THEN zRevRank(db, key, userId) ELSE zRank(db, key, userId)
      score == zScore(db, key, userId)
  IN IF rank = None THEN None
     ELSE Some([userId |-> userId,
                score |-> IF score = None THEN 0 ELSE ValueOf(score),
                rank |-> ValueOf(rank) + 1])

\* variant: the scores are read from rankKey, not from resolveRankKey
redisGetScoresBatchRankKey(db, kind, timeframe, userIds) ==
  IF Len(userIds) = 0 THEN EmptyMap
  ELSE LET raw == [c \in 1..Len(Categories) |->
                     zmScore(db, rankKey(timeframe, Categories[c]), userIds)]
       IN [userId \in Range(userIds) |->
             [category \in CategorySet |->
                LET v == raw[IndexOf(Categories, category)][IndexOf(userIds, userId)]
                IN IF v = None THEN 0 ELSE ValueOf(v)]]

redisGetScoresBatch(db, kind, timeframe, userIds) ==
  IF Len(userIds) = 0 THEN EmptyMap
  ELSE LET raw == [c \in 1..Len(Categories) |->
                     zmScore(db, resolveRankKey(kind, timeframe, Categories[c]), userIds)]
       IN [userId \in Range(userIds) |->
             [category \in CategorySet |->
                LET v == raw[IndexOf(Categories, category)][IndexOf(userIds, userId)]
                IN IF v = None THEN 0 ELSE ValueOf(v)]]

-----------------------------------------------------------------------------
(* MemoryLeaderboardStore: a ScoreMap is a JavaScript Map, i.e. a sequence   *)
(* of [userId, score] in insertion order                                     *)

MapHas(m, userId) == \E i \in 1..Len(m) : m[i].userId = userId

MapGet(m, userId) ==
  (CHOOSE row \in Range(m) : row.userId = userId).score

MapSet(m, userId, score) ==
  IF MapHas(m, userId)
    THEN [i \in 1..Len(m) |->
            IF m[i].userId = userId THEN [userId |-> userId, score |-> score] ELSE m[i]]
    ELSE Append(m, [userId |-> userId, score |-> score])

\* getOrCreate(map, key): result is the map with the key present
getOrCreate(map, key) ==
  IF key \in DOMAIN map THEN map ELSE (key :> <<>>) @@ map

RECURSIVE memApplyEntries(_, _, _)
memApplyEntries(bucket, category, entries) ==
  IF entries = <<>> THEN bucket
  ELSE LET userId == Head(entries)[1]
           value == deltaValue(Head(entries)[2], category)
           next == IF value = 0 THEN bucket
                   ELSE MapSet(bucket, userId,
                               (IF MapHas(bucket, userId) THEN MapGet(bucket, userId) ELSE 0)
                                 + value)
       IN memApplyEntries(next, category, Tail(entries))

RECURSIVE memIngestPairs(_, _, _)
memIngestPairs(map, pairs, entries) ==
  IF pairs = <<>> THEN map
  ELSE LET key == memWindowKey(Head(pairs)[1], Head(pairs)[2])
           created == getOrCreate(map, key)
           updated == [created EXCEPT
                         ![key] = memApplyEntries(created[key], Head(pairs)[2], entries)]
       IN memIngestPairs(updated, Tail(pairs), entries)

\* timeframes x categories in loop order
TimeframeCategoryPairs ==
  Flatten([t \in 1..Len(Timeframes) |->
             [c \in 1..Len(Categories) |-> <<Timeframes[t], Categories[c]>>]])

memIngestWindows(map, entries) ==
  memIngestPairs(map, TimeframeCategoryPairs, entries)

memBuildRankingFromWindows(rankMap, windowMap, timeframe) ==
  [key \in DOMAIN rankMap \cup {memRankKey(timeframe, c) : c \in CategorySet} |->
     IF \E c \in CategorySet : key = memRankKey(timeframe, c)
       THEN LET c == CHOOSE c \in CategorySet : key = memRankKey(timeframe, c)
                source == memWindowKey(timeframe, c)
            IN IF source \in DOMAIN windowMap THEN windowMap[source] ELSE <<>>
       ELSE rankMap[key]]

\* Array.prototype.sort is stable: among rows the comparator calls equal the
\* insertion order is kept
RECURSIVE StableSort(_, _)
StableSort(rows, descending) ==
  IF rows = <<>> THEN <<>>
  ELSE LET best == CHOOSE i \in 1..Len(rows) :
                     /\ \A j \in 1..Len(rows) :
                          IF descending THEN rows[j].score <= rows[i].score
                          ELSE rows[j].score >= rows[i].score
                     /\ \A j \in 1..(i - 1) : rows[j].score # rows[i].score
           rest == [j \in 1..(Len(rows) - 1) |-> IF j < best THEN rows[j] ELSE rows[j + 1]]
       IN <<rows[best]>> \o StableSort(rest, descending)

\* Array.prototype.slice(0, end)
slice0(rows, end) ==
  LET n == Len(rows)
      e == IF end < 0 THEN Max2(n + end, 0) ELSE Min2(end, n)
  IN SubSeq(rows, 1, e)

\* Number.MAX_SAFE_INTEGER, cut to the largest integer TLC represents
MAX_SAFE_INTEGER == 2147483647

memGetTopRankedUsers(rankMap, timeframe, category, limit, descending) ==
  LET key == memRankKey(timeframe, category)
  IN IF key \notin DOMAIN rankMap THEN None
     ELSE LET rows == slice0(StableSort(rankMap[key], descending), limit)
          IN Some([idx \in 1..Len(rows) |->
                [userId |-> rows[idx].userId, score |-> rows[idx].score, rank |-> idx]])

memGetUserRank(rankMap, userId, timeframe, category, descending) ==
  LET rank == memGetTopRankedUsers(rankMap, timeframe, category, MAX_SAFE_INTEGER, descending)
  IN IF rank = None THEN None
     ELSE LET rows == ValueOf(rank)
          IN IF \E i \in 1..Len(rows) : rows[i].userId = userId
               THEN Some(rows[CHOOSE i \in 1..Len(rows) : rows[i].userId = userId])
               ELSE None

memGetScoresBatch(rankMap, timeframe, userIds) ==
  IF Len(userIds) = 0 THEN EmptyMap
  ELSE [userId \in Range(userIds) |->
          [category \in CategorySet |->
             LET key == memRankKey(timeframe, category)
             IN IF key \in DOMAIN rankMap /\ MapHas(rankMap[key], userId)
                  THEN MapGet(rankMap[key], userId) ELSE 0]]

-----------------------------------------------------------------------------------------------------------------------------------------------------
(* Inputs *)

\* delta maps: every metric raised; a zero profit next to non-zero others;
\* all three non-zero; two metrics lowered with best_streak missing
dUp == [profit |-> 2, best_streak |-> 2, low_score |-> 2]
dZeroProfit == [profit |-> 0, best_streak |-> 1, low_score |-> 1]
dOnes == [profit |-> 1, best_streak |-> 1, low_score |-> 1]
dDown == [profit |-> -1, low_score |-> -2]

\* one entry; and three entries of two users, one user twice
Batches ==
  { <<<<"u1", dUp>>>>,
    <<<<"u2", dOnes>>, <<"u1", dZeroProfit>>, <<"u2", dDown>>>> }

\* reference times of ingest: Jan 1 23:30 and Jan 2 00:05
IngestDates == {1410, 1445}

\* arguments of the reads: limit, descending, userId, userIds ("u3" is never
\* ingested)
Limits == {0, 1, 2, 3}
Orderings == BOOLEAN
ReadUsers == UserSet \cup {"u3"}
UserIdLists == { <<"u1">>, <<"u2", "u1">>, <<"u3">>, <<"u3", "u1">> }

\* a limit that includes every user
FullLimit == Len(Users)

\* ingestWindows(entries, date) calls
IngestCalls == Batches \X IngestDates

\* deltas with +Infinity and -Infinity
FailBatches ==
  { <<<<"u1", [profit |-> Infinity]>>>>,
    <<<<"u1", [profit |-> -Infinity, best_streak |-> 1]>>>>,
    <<<<"u2", dOnes>>>> }

FailIngestCalls == FailBatches \X {1445}

\* calls that overlap in time: ingests at Jan 1 23:30, rebuilds of one
\* timeframe at two reference times
ConcIngestDate == 1410
ConcIngestCalls == Batches \X {ConcIngestDate}
ConcBuildCalls == { <<"day", 1445, 1>>, <<"day", 1500, 0>> }

\* buildRankingFromWindows(timeframe, date, ttlSeconds) calls, at Jan 2 00:05
\* and Jan 2 01:00, with and without a TTL
BuildCalls ==
  { <<"day", 1445, 1>>, <<"day", 1500, 0>>,
    <<"lifetime", 1445, 0>>, <<"lifetime", 1500, 1>> }

-----------------------------------------------------------------------------
(* History of the deltas written to window keys *)

NoWrites == [total |-> 0, deltas |-> {}]

WritesOf(hist, key, userId) ==
  IF key \in DOMAIN hist /\ userId \in DOMAIN hist[key]
    THEN hist[key][userId] ELSE NoWrites

RECURSIVE RecordWrites(_, _)
RecordWrites(hist, cmds) ==
  IF cmds = <<>> THEN hist
  ELSE LET cmd == Head(cmds)
       IN IF cmd.op \in {"zIncrBy", "zAddGT", "zAddLT"}
            THEN LET old == WritesOf(hist, cmd.key, cmd.member)
                     new == [total |-> old.total + cmd.value,
                             deltas |-> old.deltas \cup {cmd.value}]
                     perKey == IF cmd.key \in DOMAIN hist THEN hist[cmd.key] ELSE EmptyMap
                 IN RecordWrites((cmd.key :> ((cmd.member :> new) @@ perKey)) @@ hist,
                                 Tail(cmds))
            ELSE RecordWrites(hist, Tail(cmds))

-----------------------------------------------------------------------------------------------------------------------------------------------------
(* Rank structures *)

\* the Redis rank structure of (timeframe, category): member -> score
RedisRank(db, kind, timeframe, category) ==
  ZSetOf(db, resolveRankKey(kind, timeframe, category))

RedisRanks(db, kind, timeframe) ==
  [c \in CategorySet |-> RedisRank(db, kind, timeframe, c)]

MemRankExists(rankMap, timeframe, category) ==
  memRankKey(timeframe, category) \in DOMAIN rankMap

\* the in-memory rank structure of (timeframe, category), <<>> when missing
MemRank(rankMap, timeframe, category) ==
  IF MemRankExists(rankMap, timeframe, category)
    THEN rankMap[memRankKey(timeframe, category)] ELSE <<>>

MemRanks(rankMap, timeframe) ==
  [c \in CategorySet |-> MemRank(rankMap, timeframe, c)]

NotBuilt ==
  [done |-> FALSE, date |-> 0, dirty |-> FALSE, again |-> FALSE,
   redisRanks |-> [c \in CategorySet |-> EmptyMap],
   memRanks |-> [c \in CategorySet |-> <<>>]]

\* no service constructed
NoService == [status |-> "none"]

-----------------------------------------------------------------------------
(* The fluent builder (builder.ts).  An object is kept as the sequence of    *)
(* its own properties, <<key, value>>, in insertion order.                   *)

\* Object.prototype.hasOwnProperty.call(object, key)
hasOwnProperty(object, key) == \E i \in 1..Len(object) : object[i][1] = key

\* Object.keys(object)
keysOfObject(object) == [i \in 1..Len(object) |-> object[i][1]]

\* { ...object, [key]: value }: a present key keeps its place and takes
\* the value, a new key goes last
withProperty(object, key, value) ==
  IF hasOwnProperty(object, key)
    THEN [i \in 1..Len(object) |-> IF object[i][1] = key THEN <<key, value>> ELSE object[i]]
    ELSE Append(object, <<key, value>>)

\* createLeaderboardBuilder(): the state of an empty builder
createLeaderboardBuilder ==
  [prefix |-> "lb", metrics |-> <<>>, timeframes |-> <<>>, defaults |-> <<>>]

\* the outcomes of a call on a builder: the error thrown, the builder
\* returned, the blueprint returned
Thrown(message) == [status |-> "LeaderboardConfigError", message |-> message]
Built(state) == [status |-> "builder", state |-> state]
createBlueprint(definition) == [status |-> "blueprint", definition |-> definition]

assertUniqueMetric(state, key) ==
  IF hasOwnProperty(state.metrics, key)
    THEN Thrown("Metric \"" \o key \o "\" is already defined")
    ELSE [status |-> "ok"]

\* variant: a timeframe key is never taken as defined
assertUniqueTimeframeNever(state, key) == [status |-> "ok"]

assertUniqueTimeframe(state, key) ==
  IF hasOwnProperty(state.timeframes, key)
    THEN Thrown("Timeframe \"" \o key \o "\" is already defined")
    ELSE [status |-> "ok"]

\* metric(key, spec), and sum / max / min(key) with their aggregation
builderMetric(state, key, spec) ==
  LET unique == assertUniqueMetric(state, key)
  IN IF unique.status # "ok" THEN unique
     ELSE Built([state EXCEPT !.metrics = withProperty(state.metrics, key, spec)])

builderSum(state, key) == builderMetric(state, key, [aggregation |-> "sum"])
builderMax(state, key) == builderMetric(state, key, [aggregation |-> "max"])
builderMin(state, key) == builderMetric(state, key, [aggregation |-> "min"])

\* timeframe(key, spec), rolling(key, config) and allTime(key)
builderTimeframe(state, key, spec) ==
  LET unique == assertUniqueTimeframe(state, key)
  IN IF unique.status # "ok" THEN unique
     ELSE Built([state EXCEPT !.timeframes = withProperty(state.timeframes, key, spec)])

builderRolling(state, key, config) ==
  builderTimeframe(state, key,
                   [type |-> "rolling", unit |-> config.unit, size |-> config.size])

builderAllTime(state, key) == builderTimeframe(state, key, [type |-> "all"])

\* defaults(defaults)
builderDefaults(state, defaults) == Built([state EXCEPT !.defaults = Some(defaults)])

\* build(defaultsArg)
build(state, defaultsArg) ==
  LET defaults == IF defaultsArg # None THEN defaultsArg ELSE state.defaults
  IN IF defaults = None
       THEN Thrown("defaults are required. Call .defaults(...) or pass defaults to .build(defaults).")
     ELSE IF Len(keysOfObject(state.metrics)) = 0
       THEN Thrown("At least one metric is required")
     ELSE IF Len(keysOfObject(state.timeframes)) = 0
       THEN Thrown("At least one timeframe is required")
     ELSE IF ~hasOwnProperty(state.metrics, ValueOf(defaults).metric)
       THEN Thrown("Unknown default metric: " \o ValueOf(defaults).metric)
     ELSE IF ~hasOwnProperty(state.timeframes, ValueOf(defaults).timeframe)
       THEN Thrown("Unknown default timeframe: " \o ValueOf(defaults).timeframe)
     ELSE createBlueprint([prefix |-> state.prefix, metrics |-> state.metrics,
                           timeframes |-> state.timeframes,
                           defaults |-> ValueOf(defaults)])

\* keys, specifications and defaults offered to the builder; "xp" and
\* "week" are never defined
MetricKeys == {"points", "wins"}
TimeframeKeys == {"day", "all"}
MetricSpecs == { <<>> }
RollingConfigs == { [unit |-> "hour", size |-> 24] }
BuilderTimeframeSpecs == { [type |-> "all"] }
BuilderDefaults ==
  { [metric |-> "points", timeframe |-> "day"],
    [metric |-> "xp", timeframe |-> "day"],
    [metric |-> "points", timeframe |-> "week"] }
BuilderCalls ==
  ([method : {"metric"}, key : MetricKeys, arg : MetricSpecs]
   \cup [method : {"sum", "max", "min"}, key : MetricKeys, arg : {<<>>}]
   \cup [method : {"timeframe"}, key : TimeframeKeys, arg : BuilderTimeframeSpecs]
   \cup [method : {"rolling"}, key : TimeframeKeys, arg : RollingConfigs]
   \cup [method : {"allTime"}, key : TimeframeKeys, arg : {<<>>}]
   \cup [method : {"defaults"}, key : {""}, arg : {d \in BuilderDefaults : d.metric = "points"}]
   \cup [method : {"build"}, key : {""}, arg : {None} \cup {Some(d) : d \in BuilderDefaults}])

\* the outcome of one call on the builder of the given state
callBuilder(state, call) ==
  CASE call.method = "metric" -> builderMetric(state, call.key, call.arg)
    [] call.method = "sum" -> builderSum(state, call.key)
    [] call.method = "max" -> builderMax(state, call.key)
    [] call.method = "min" -> builderMin(state, call.key)
    [] call.method = "timeframe" -> builderTimeframe(state, call.key, call.arg)
    [] call.method = "rolling" -> builderRolling(state, call.key, call.arg)
    [] call.method = "allTime" -> builderAllTime(state, call.key)
    [] call.method = "defaults" -> builderDefaults(state, call.arg)
    [] call.method = "build" -> build(state, call.arg)

\* the builder createLeaderboardBuilder() returns: no call made on it, no
\* key added
NewBuilder ==
  [state |-> createLeaderboardBuilder, last |-> <<>>,
   added |-> [key \in MetricKeys \cup TimeframeKeys |-> 0]]

\* one call of the chain is made on the builder the chain has reached; the
\* chain goes on with the builder returned, and stays where it is when the
\* call throws or builds.  added counts the calls that added each key.
CallBuilder(call) ==
  LET out == callBuilder(builder.state, call)
  IN /\ builder' =
          [state |-> IF out.status = "builder" THEN out.state ELSE builder.state,
           last |-> <<[call |-> call, out |-> out]>>,
           added |-> IF out.status = "builder" /\ call.method # "defaults"
                       THEN [builder.added EXCEPT ![call.key] = @ + 1]
                       ELSE builder.added]
     /\ UNCHANGED runtime

NextBuilder == \E call \in BuilderCalls : CallBuilder(call)

-----------------------------------------------------------------------------
(* Actions *)

\* both stores empty, no call made
InitStores ==
  /\ redis = EmptyMap
  /\ windows = EmptyMap
  /\ ranks = EmptyMap
  /\ written = EmptyMap
  /\ lastBuild = [tf \in TimeframeSet |-> NotBuilt]
  /\ lastResult = "ok"
  /\ nIngest = 0
  /\ nBuild = 0
  /\ calls = <<>>
  /\ svc = NoService
  /\ keyed = <<>>
  /\ builder = NewBuilder

Init == cfg \in [kind : ConfigKinds] /\ InitStores

\* RedisLeaderboardStore.ingestWindows(entries, date)
IngestOnRedis(entries, date) ==
  /\ nIngest + nBuild < MaxCalls
  /\ nIngest' = nIngest + 1
  /\ UNCHANGED <<cfg, ranks, nBuild, aside>>
  /\ LET result == redisIngestWindows(redis, cfg.kind, entries, date)
     IN /\ redis' = result.db
        /\ lastResult' = IF result.failed THEN "rejected" ELSE "ok"
  /\ written' = RecordWrites(written, IngestCommands(cfg.kind, entries, date))
  /\ lastBuild' = [tf \in TimeframeSet |->
                     [lastBuild[tf] EXCEPT !.dirty = lastBuild[tf].done,
                                           !.again = FALSE]]

\* service.ingest(entries, date) -> store.ingestWindows(entries, date), on
\* both stores
IngestWindows(entries, date) ==
  /\ IngestOnRedis(entries, date)
  /\ windows' = memIngestWindows(windows, entries)

\* ingestWindows of the Redis store alone, for deltas that are not finite
IngestRedisOnly(entries, date) ==
  /\ IngestOnRedis(entries, date)
  /\ UNCHANGED windows

\* store.buildRankingFromWindows(timeframe, date, ttlSeconds), on both stores
BuildRankingFromWindows(timeframe, date, ttlSeconds) ==
  /\ nIngest + nBuild < MaxCalls
  /\ nBuild' = nBuild + 1
  /\ UNCHANGED <<cfg, windows, written, nIngest, aside>>
  /\ LET result == redisBuildRankingFromWindows(redis, cfg.kind, timeframe, date, ttlSeconds)
     IN /\ redis' = result.db
        /\ lastResult' = IF result.failed THEN "rejected" ELSE "ok"
  /\ ranks' = memBuildRankingFromWindows(ranks, windows, timeframe)
  /\ lastBuild' = [lastBuild EXCEPT ![timeframe] =
                     [done |-> TRUE, date |-> date, dirty |-> FALSE,
                      again |-> /\ lastBuild[timeframe].done
                                /\ lastBuild[timeframe].date = date
                                /\ ~lastBuild[timeframe].dirty,
                      redisRanks |-> RedisRanks(redis', cfg.kind, timeframe),
                      memRanks |-> MemRanks(ranks', timeframe)]]

\* one second passes on the Redis server: every TTL counts down and a key
\* whose TTL reaches zero vanishes
Tick ==
  /\ \E key \in DOMAIN redis : redis[key].exp # NoExpiry
  /\ redis' = [k \in {key \in DOMAIN redis : redis[key].exp # 1} |->
                 IF redis[k].exp = NoExpiry THEN redis[k]
                 ELSE [redis[k] EXCEPT !.exp = @ - 1]]
  /\ UNCHANGED <<cfg, windows, ranks, written, lastBuild, lastResult, nIngest, nBuild,
                 aside>>

Next ==
  \/ \E call \in IngestCalls : IngestWindows(call[1], call[2])
  \/ \E call \in BuildCalls : BuildRankingFromWindows(call[1], call[2], call[3])
  \/ Tick

Spec == Init /\ [][Next]_vars

\* ingests in which "u1" never has a non-zero delta for profit (zero, or
\* missing from the delta) and "u2" has a zero profit after a non-zero one
ZeroBatches ==
  { << <<"u1", dZeroProfit>>, <<"u2", dOnes>> >>,
    << <<"u1", [best_streak |-> 2]>> >>,
    << <<"u2", [profit |-> 0, best_streak |-> 3]>> >>,
    << <<"u2", dDown>> >> }
ZeroIngestCalls == ZeroBatches \X {ConcIngestDate}

NextZero ==
  \/ \E call \in ZeroIngestCalls : IngestWindows(call[1], call[2])
  \/ \E call \in BuildCalls : BuildRankingFromWindows(call[1], call[2], call[3])

SpecZero == Init /\ [][NextZero]_vars

\* ingests at one reference time, rebuilds, and the TTLs counting down
NextFrame ==
  \/ \E call \in ConcIngestCalls : IngestWindows(call[1], call[2])
  \/ \E call \in BuildCalls : BuildRankingFromWindows(call[1], call[2], call[3])
  \/ Tick

SpecFrame == Init /\ [][NextFrame]_vars

\* buildRankingFromWindows(timeframe, date, ttlSeconds) calls with a TTL of two
\* seconds, of zero and below zero
TtlBuildCalls ==
  { <<"day", 1445, 2>>, <<"day", 1500, 0>>,
    <<"lifetime", 1445, 2>>, <<"lifetime", 1500, -1>> }

\* buildRankingFromWindows(timeframe, date, ttlSeconds); lastBuild also keeps
\* the ttlSeconds passed and the seconds elapsed since the call
Rebuild(timeframe, date, ttlSeconds) ==
  /\ nIngest + nBuild < MaxCalls
  /\ nBuild' = nBuild + 1
  /\ UNCHANGED <<cfg, windows, written, nIngest, aside>>
  /\ LET result == redisBuildRankingFromWindows(redis, cfg.kind, timeframe, date, ttlSeconds)
     IN /\ redis' = result.db
        /\ lastResult' = IF result.failed THEN "rejected" ELSE "ok"
  /\ ranks' = memBuildRankingFromWindows(ranks, windows, timeframe)
  /\ lastBuild' = [lastBuild EXCEPT ![timeframe] =
                     [done |-> TRUE, date |-> date, dirty |-> FALSE,
                      again |-> /\ lastBuild[timeframe].done
                                /\ lastBuild[timeframe].date = date
                                /\ ~lastBuild[timeframe].dirty,
                      redisRanks |-> RedisRanks(redis', cfg.kind, timeframe),
                      memRanks |-> MemRanks(ranks', timeframe),
                      ttlSeconds |-> ttlSeconds, elapsed |-> 0]]

\* one second passes while some key carries an expiry: Redis counts the
\* expiries down and every rebuild made is one second older
Second ==
  /\ \E key \in DOMAIN redis : redis[key].exp # NoExpiry
  /\ redis' = [k \in {key \in DOMAIN redis : redis[key].exp # 1} |->
                 IF redis[k].exp = NoExpiry THEN redis[k]
                 ELSE [redis[k] EXCEPT !.exp = @ - 1]]
  /\ lastBuild' = [tf \in TimeframeSet |->
                     IF lastBuild[tf].done
                       THEN [lastBuild[tf] EXCEPT !.elapsed = @ + 1]
                       ELSE lastBuild[tf]]
  /\ UNCHANGED <<cfg, windows, ranks, written, lastResult, nIngest, nBuild, aside>>

NextTtl ==
  \/ \E call \in ConcIngestCalls : IngestWindows(call[1], call[2])
  \/ \E call \in TtlBuildCalls : Rebuild(call[1], call[2], call[3])
  \/ Second

SpecTtl == Init /\ [][NextTtl]_vars

\* ingests and rebuilds on the stores of the derived configurations, the one
\* whose timeframes share a unit included
InitTokens == cfg \in [kind : {"declarative", "schema", "sharing"}] /\ InitStores

SpecTokens == InitTokens /\ [][Next]_vars

\* chains of calls on the builder
InitBuilder == cfg = [kind |-> "default"] /\ InitStores

SpecBuilder == InitBuilder /\ [][NextBuilder]_vars

\* the Redis store fed with infinite deltas
NextFail ==
  \/ \E call \in FailIngestCalls : IngestRedisOnly(call[1], call[2])
  \/ \E call \in BuildCalls : BuildRankingFromWindows(call[1], call[2], call[3])
  \/ Tick

SpecFail == Init /\ [][NextFail]_vars

-----------------------------------------------------------------------------
(* Store calls that overlap in time.  A call of the Redis store queues its   *)
(* commands on a MULTI while it runs synchronously, sends them with exec()   *)
(* and completes when the server has run them as one batch; a call of the    *)
(* in-memory store runs to completion synchronously when it is made.         *)

\* number of calls the server has committed
Committed == Cardinality({i \in 1..Len(calls) : calls[i].pc = "done"})

\* ingestWindows(entries, date) is called: the MULTI is sent
StartIngest(entries, date) ==
  /\ nIngest + nBuild < MaxCalls
  /\ nIngest' = nIngest + 1
  /\ calls' = Append(calls, [op |-> "ingest", pc |-> "sent", seq |-> 0,
                              timeframe |-> "", date |-> date,
                              cmds |-> IngestCommands(cfg.kind, entries, date)])
  /\ windows' = memIngestWindows(windows, entries)
  /\ UNCHANGED <<cfg, redis, ranks, written, lastBuild, lastResult, nBuild, svc, keyed, builder>>

\* buildRankingFromWindows(timeframe, date, ttlSeconds) is called: the MULTI
\* is sent
StartBuild(timeframe, date, ttlSeconds) ==
  /\ nIngest + nBuild < MaxCalls
  /\ nBuild' = nBuild + 1
  /\ calls' = Append(calls, [op |-> "build", pc |-> "sent", seq |-> 0,
                              timeframe |-> timeframe, date |-> date,
                              cmds |-> BuildCommands(cfg.kind, timeframe, date, ttlSeconds)])
  /\ ranks' = memBuildRankingFromWindows(ranks, windows, timeframe)
  /\ UNCHANGED <<cfg, redis, windows, written, lastBuild, lastResult, nIngest, svc, keyed, builder>>

\* the server runs the MULTI of call i and the call completes
CommitBatch(i) ==
  /\ calls[i].pc = "sent"
  /\ LET result == exec(redis, calls[i].cmds)
     IN /\ redis' = result.db
        /\ lastResult' = IF result.failed THEN "rejected" ELSE "ok"
  /\ calls' = [calls EXCEPT ![i].pc = "done", ![i].seq = Committed + 1, ![i].cmds = <<>>]
  /\ written' = RecordWrites(written, calls[i].cmds)
  /\ lastBuild' =
       IF calls[i].op = "build"
         THEN [lastBuild EXCEPT ![calls[i].timeframe] =
                 [done |-> TRUE, date |-> calls[i].date, dirty |-> FALSE, again |-> FALSE,
                  redisRanks |-> RedisRanks(redis', cfg.kind, calls[i].timeframe),
                  memRanks |-> MemRanks(ranks, calls[i].timeframe)]]
         ELSE [tf \in TimeframeSet |->
                 [lastBuild[tf] EXCEPT !.dirty = lastBuild[tf].done, !.again = FALSE]]
  /\ UNCHANGED <<cfg, windows, ranks, nIngest, nBuild, keyed, builder>>

\* a call made on the store directly
Commit(i) == CommitBatch(i) /\ UNCHANGED svc

\* overlapping ingests
NextIngests ==
  \/ \E call \in ConcIngestCalls : StartIngest(call[1], call[2])
  \/ \E i \in 1..Len(calls) : Commit(i)

\* overlapping rebuilds of one timeframe, and ingests of one batch
NextRebuilds ==
  \/ StartIngest(<<<<"u1", dUp>>>>, ConcIngestDate)
  \/ \E call \in ConcBuildCalls : StartBuild(call[1], call[2], call[3])
  \/ \E i \in 1..Len(calls) : Commit(i)

\* the stores of the declarative configuration, whose rolling timeframe makes
\* the result of a rebuild depend on its reference time
InitConc == Init /\ cfg.kind = "declarative"

SpecIngests == InitConc /\ [][NextIngests]_vars

SpecRebuilds == InitConc /\ [][NextRebuilds]_vars

\* calls made one after another on a store of a derived configuration: the
\* same deltas ingested at Jan 1 23:30 and at Jan 2 00:05, and rebuilds of the
\* rolling timeframe (two hours) and of the all-time one at Jan 2 00:05 and
\* Jan 2 01:00, without a TTL
RollingBatch == << <<"u1", dUp>>, <<"u2", dDown>> >>
RollingBuildCalls == { <<"day", 1445, 0>>, <<"day", 1500, 0>>, <<"lifetime", 1500, 0>> }

NoneInFlight == \A i \in 1..Len(calls) : calls[i].pc = "done"

NextRolling ==
  \/ NoneInFlight /\ \E date \in IngestDates : StartIngest(RollingBatch, date)
  \/ NoneInFlight /\ \E call \in RollingBuildCalls : StartBuild(call[1], call[2], call[3])
  \/ \E i \in 1..Len(calls) : Commit(i)

InitDerived == cfg \in [kind : {"declarative", "schema"}] /\ InitStores

SpecRolling == InitDerived /\ [][NextRolling]_vars

\* the same calls on the store whose best_streak leaves "day" at RetireDate
InitRetiring == cfg = [kind |-> "retiring"] /\ InitStores

SpecRetiring == InitRetiring /\ [][NextRebuilds]_vars

-----------------------------------------------------------------------------
(* Reads of the Redis store that overlap rebuilds.  getUserRank sends        *)
(* zRevRank (or zRank) and zScore as two commands of one Promise.all, and    *)
(* getTopRankedUsers awaits ttl before it sends zRangeWithScores: the server *)
(* may run the batch of another client between the two commands.  The reads  *)
(* of the in-memory store have no await.                                     *)

ReadDescending == TRUE
ReadUserRankCalls == {"u1"} \X {"profit", "best_streak"}
ReadTopCalls == {"profit"} \X {FullLimit}

\* the entry getUserRank forms from the replies to its two commands
userRankEntry(userId, rank, score) ==
  IF rank = None THEN None
  ELSE Some([userId |-> userId,
             score |-> IF score = None THEN 0 ELSE ValueOf(score),
             rank |-> ValueOf(rank) + 1])

\* the entries getTopRankedUsers forms from the rows of zRangeWithScores
topEntries(rows) ==
  Some([idx \in 1..Len(rows) |->
          [userId |-> rows[idx].value, score |-> rows[idx].score, rank |-> idx]])

\* the read call in flight after its first command; pre is what the whole
\* call returns on the keyspace the first command ran on
ReadCall(op, userId, category, limit, first, pre) ==
  [op |-> op, pc |-> "second", userId |-> userId, category |-> category, limit |-> limit,
   first |-> first, pre |-> pre, post |-> None, result |-> None,
   started |-> nBuild, overlapped |-> 0]

\* getUserRank(userId, "day", category, descending) is called and the server
\* runs its first command
UserRankFirst(userId, category) ==
  /\ nIngest + nBuild + Len(calls) < MaxCalls
  /\ LET key == resolveRankKey(cfg.kind, "day", category)
         rank == IF ReadDescending THEN zRevRank(redis, key, userId)
                 ELSE zRank(redis, key, userId)
     IN calls' = Append(calls,
          ReadCall("getUserRank", userId, category, 0, rank,
                   redisGetUserRank(redis, cfg.kind, userId, "day", category,
                                    ReadDescending)))
  /\ UNCHANGED <<cfg, redis, windows, ranks, written, lastBuild, lastResult, nIngest,
                 nBuild, svc, keyed, builder>>

\* the server runs the zScore of getUserRank call i and the call returns
UserRankSecond(i) ==
  /\ calls[i].op = "getUserRank" /\ calls[i].pc = "second"
  /\ LET key == resolveRankKey(cfg.kind, "day", calls[i].category)
         score == zScore(redis, key, calls[i].userId)
     IN calls' = [calls EXCEPT
          ![i].pc = "done",
          ![i].result = userRankEntry(calls[i].userId, calls[i].first, score),
          ![i].post = redisGetUserRank(redis, cfg.kind, calls[i].userId, "day",
                                       calls[i].category, ReadDescending),
          ![i].overlapped = nBuild - calls[i].started]
  /\ UNCHANGED <<cfg, redis, windows, ranks, written, lastBuild, lastResult, nIngest,
                 nBuild, svc, keyed, builder>>

\* getTopRankedUsers("day", category, limit, descending) is called and the
\* server runs its ttl; the call returns null at once when the key is missing
TopFirst(category, limit) ==
  /\ nIngest + nBuild + Len(calls) < MaxCalls
  /\ LET key == resolveRankKey(cfg.kind, "day", category)
         first == ttl(redis, key)
         pre == redisGetTopRankedUsers(redis, cfg.kind, "day", category, limit,
                                       ReadDescending)
         call == ReadCall("getTopRankedUsers", "", category, limit, first, pre)
     IN calls' = Append(calls,
          IF first = -2 THEN [call EXCEPT !.pc = "done", !.post = pre] ELSE call)
  /\ UNCHANGED <<cfg, redis, windows, ranks, written, lastBuild, lastResult, nIngest,
                 nBuild, svc, keyed, builder>>

\* the server runs the zRangeWithScores of getTopRankedUsers call i and the
\* call returns
TopSecond(i) ==
  /\ calls[i].op = "getTopRankedUsers" /\ calls[i].pc = "second"
  /\ LET key == resolveRankKey(cfg.kind, "day", calls[i].category)
         rows == zRangeWithScores(redis, key, 0, calls[i].limit - 1, ReadDescending)
     IN calls' = [calls EXCEPT
          ![i].pc = "done",
          ![i].result = topEntries(rows),
          ![i].post = redisGetTopRankedUsers(redis, cfg.kind, "day", calls[i].category,
                                             calls[i].limit, ReadDescending),
          ![i].overlapped = nBuild - calls[i].started]
  /\ UNCHANGED <<cfg, redis, windows, ranks, written, lastBuild, lastResult, nIngest,
                 nBuild, svc, keyed, builder>>

\* ingests and rebuilds, each run by the server as one batch, and reads
NextReads ==
  \/ /\ nIngest + nBuild + Len(calls) < MaxCalls
     /\ IngestWindows(<<<<"u1", dUp>>>>, ConcIngestDate)
  \/ /\ nIngest + nBuild + Len(calls) < MaxCalls
     /\ \E call \in ConcBuildCalls : BuildRankingFromWindows(call[1], call[2], call[3])
  \/ \E call \in ReadUserRankCalls : UserRankFirst(call[1], call[2])
  \/ \E i \in 1..Len(calls) : UserRankSecond(i)
  \/ \E call \in ReadTopCalls : TopFirst(call[1], call[2])
  \/ \E i \in 1..Len(calls) : TopSecond(i)

SpecReads == InitConc /\ [][NextReads]_vars

-----------------------------------------------------------------------------
(* service.rebuild(timeframes, date, ttlSeconds): one buildRankingFromWindows *)
(* call per timeframe under Promise.all, which fulfils when every call has    *)
(* fulfilled and rejects as soon as one of them rejects; the catch handler   *)
(* logs (if a logger is supplied) and rethrows.  A call of the store rejects *)
(* when its exec() does, e.g. on a lost connection.                          *)

RebuildTimeframes == { <<"day">>, <<"day", "lifetime">>, <<"lifetime", "day">> }
RebuildDates == {1445, 1500}
RebuildTtlSeconds == 1

\* the per-timeframe calls of the service's current rebuild
OfRebuild(cs) == {i \in 1..Len(cs) : cs[i].op = "build" /\ cs[i].timeframe # ""
                                     /\ cs[i].of = svc.id}

\* service.rebuild is called: every per-timeframe call is issued
ServiceRebuild(timeframes, date, logger) ==
  /\ svc.status # "pending"
  /\ nIngest + nBuild + Len(timeframes) <= MaxCalls
  /\ nBuild' = nBuild + Len(timeframes)
  /\ LET id == IF svc = NoService THEN 1 ELSE svc.id + 1
     IN /\ svc' = [status |-> "pending", id |-> id, logger |-> logger, logged |-> 0,
                   inFlight |-> Len(timeframes)]
        /\ calls' = calls \o
             [t \in 1..Len(timeframes) |->
                [op |-> "build", pc |-> "sent", seq |-> 0, of |-> id,
                 timeframe |-> timeframes[t], date |-> date,
                 cmds |-> BuildCommands(cfg.kind, timeframes[t], date, RebuildTtlSeconds)]]
  /\ UNCHANGED <<cfg, redis, windows, ranks, written, lastBuild, lastResult, nIngest, keyed, builder>>

\* the calls of the current rebuild still in flight once call i has settled
StillInFlight(i) == Cardinality({j \in OfRebuild(calls) \ {i} : calls[j].pc = "sent"})

\* a per-timeframe call fulfils; Promise.all fulfils with the last of them
BuildFulfils(i) ==
  /\ svc # NoService
  /\ CommitBatch(i)
  /\ svc' = IF svc.status = "pending" /\ calls[i].of = svc.id /\ StillInFlight(i) = 0
              THEN [svc EXCEPT !.status = "resolved", !.inFlight = 0]
              ELSE svc

\* a per-timeframe call rejects, its batch not run; Promise.all rejects with
\* the first of them, the handler logs and rethrows, the caller has the error
BuildRejects(i) ==
  /\ svc # NoService
  /\ calls[i].pc = "sent"
  /\ calls' = [calls EXCEPT ![i].pc = "failed", ![i].cmds = <<>>]
  /\ lastResult' = "rejected"
  /\ svc' = IF svc.status = "pending" /\ calls[i].of = svc.id
              THEN [svc EXCEPT !.status = "rejected",
                               !.logged = IF svc.logger THEN 1 ELSE 0,
                               !.inFlight = StillInFlight(i)]
              ELSE svc
  /\ UNCHANGED <<cfg, redis, windows, ranks, written, lastBuild, nIngest, nBuild, keyed, builder>>

NextService ==
  \/ \E call \in ConcIngestCalls : IngestWindows(call[1], call[2])
  \/ \E tfs \in RebuildTimeframes, date \in RebuildDates, logger \in BOOLEAN :
       ServiceRebuild(tfs, date, logger)
  \/ \E i \in 1..Len(calls) : BuildFulfils(i)
  \/ \E i \in 1..Len(calls) : BuildRejects(i)

SpecService == InitConc /\ [][NextService]_vars

-----------------------------------------------------------------------------
(* createLeaderboardService(config, deps)                                    *)

DEFAULT_LIMIT == 25
DEFAULT_MAX_LIMIT == 100

\* array.includes(x)
includes(array, x) == \E i \in 1..Len(array) : array[i] = x

\* value ?? fallback, on an optional value
orElse(opt, fallback) == IF opt = None THEN fallback ELSE ValueOf(opt)

LeaderboardConfigError(message) ==
  [status |-> "LeaderboardConfigError", message |-> message]

\* variant: the limits are only required to be non-negative
createLeaderboardServiceLaxLimits(config, store) ==
  IF Len(config.categories) = 0
    THEN LeaderboardConfigError("categories must not be empty")
  ELSE IF ~includes(config.categories, config.defaultCategory)
    THEN LeaderboardConfigError("defaultCategory must be in categories")
  ELSE IF ~includes(config.timeframes, config.defaultTimeframe)
    THEN LeaderboardConfigError("defaultTimeframe must be in timeframes")
  ELSE IF orElse(config.defaultLimit, DEFAULT_LIMIT) < 0
    THEN LeaderboardConfigError("defaultLimit must be >= 1")
  ELSE IF orElse(config.maxLimit, DEFAULT_MAX_LIMIT) < 0
    THEN LeaderboardConfigError("maxLimit must be >= 1")
  ELSE [status |-> "created", config |-> config, store |-> store,
        defaultSort |-> orElse(config.defaultSort, "desc"),
        defaultLimit |-> orElse(config.defaultLimit, DEFAULT_LIMIT),
        maxLimit |-> orElse(config.maxLimit, DEFAULT_MAX_LIMIT)]

\* the service (the values its closures capture) or the error thrown
createLeaderboardService(config, store) ==
  IF Len(config.categories) = 0
    THEN LeaderboardConfigError("categories must not be empty")
  ELSE IF ~includes(config.categories, config.defaultCategory)
    THEN LeaderboardConfigError("defaultCategory must be in categories")
  ELSE IF ~includes(config.timeframes, config.defaultTimeframe)
    THEN LeaderboardConfigError("defaultTimeframe must be in timeframes")
  ELSE IF orElse(config.defaultLimit, DEFAULT_LIMIT) < 1
    THEN LeaderboardConfigError("defaultLimit must be >= 1")
  ELSE IF orElse(config.maxLimit, DEFAULT_MAX_LIMIT) < 1
    THEN LeaderboardConfigError("maxLimit must be >= 1")
  ELSE [status |-> "created", config |-> config, store |-> store,
        defaultSort |-> orElse(config.defaultSort, "desc"),
        defaultLimit |-> orElse(config.defaultLimit, DEFAULT_LIMIT),
        maxLimit |-> orElse(config.maxLimit, DEFAULT_MAX_LIMIT)]

\* configurations offered to createLeaderboardService
ConfigCategories == { <<>>, <<"profit">>, Categories }
ConfigTimeframes == { <<>>, <<"lifetime">>, Timeframes }
ConfigLimits == { None, Some(-1), Some(0), Some(1), Some(3) }
ServiceConfigs ==
  [categories : ConfigCategories, defaultCategory : {"profit", "low_score"},
   timeframes : ConfigTimeframes, defaultTimeframe : {"day", "lifetime"},
   defaultSort : {None}, defaultLimit : ConfigLimits, maxLimit : ConfigLimits]
StoreKinds == {"redis", "memory"}

\* createLeaderboardService(config, {store}) is called; given keeps the
\* configuration passed
CreateService(config, store) ==
  /\ svc = NoService
  /\ svc' = [made |-> createLeaderboardService(config, store), given |-> config,
             status |-> "called", last |-> None]
  /\ UNCHANGED <<cfg, redis, windows, ranks, written, lastBuild, lastResult, nIngest,
                 nBuild, calls, keyed, builder>>

NextCreate == \E config \in ServiceConfigs, store \in StoreKinds : CreateService(config, store)

SpecCreate == Init /\ [][NextCreate]_vars

-----------------------------------------------------------------------------
(* The queries of the service.  storeCalls lists the calls made on the       *)
(* store, in order.                                                          *)

LeaderboardQueryError(message) ==
  [status |-> "LeaderboardQueryError", message |-> message, storeCalls |-> <<>>]

\* variant: the requested limit is taken as it is
normalizeQueryUnclamped(service, query) ==
  LET orderBy == orElse(query.orderBy, service.config.defaultCategory)
      timeframe == orElse(query.timeframe, service.config.defaultTimeframe)
      sort == orElse(query.sort, service.defaultSort)
      limit == orElse(query.limit, service.defaultLimit)
  IN IF orderBy \notin Range(service.config.categories)
       THEN LeaderboardQueryError("Unknown category: " \o orderBy)
     ELSE IF timeframe \notin Range(service.config.timeframes)
       THEN LeaderboardQueryError("Unknown timeframe: " \o timeframe)
     ELSE [status |-> "ok", orderBy |-> orderBy, timeframe |-> timeframe, sort |-> sort,
           limit |-> limit]

\* variant: the timeframe is not validated
normalizeQueryAnyTimeframe(service, query) ==
  LET orderBy == orElse(query.orderBy, service.config.defaultCategory)
      timeframe == orElse(query.timeframe, service.config.defaultTimeframe)
      sort == orElse(query.sort, service.defaultSort)
      rawLimit == orElse(query.limit, service.defaultLimit)
      limit == Max2(1, Min2(service.maxLimit, rawLimit))
  IN IF orderBy \notin Range(service.config.categories)
       THEN LeaderboardQueryError("Unknown category: " \o orderBy)
     ELSE [status |-> "ok", orderBy |-> orderBy, timeframe |-> timeframe, sort |-> sort,
           limit |-> limit]

normalizeQuery(service, query) ==
  LET orderBy == orElse(query.orderBy, service.config.defaultCategory)
      timeframe == orElse(query.timeframe, service.config.defaultTimeframe)
      sort == orElse(query.sort, service.defaultSort)
      rawLimit == orElse(query.limit, service.defaultLimit)
      limit == Max2(1, Min2(service.maxLimit, rawLimit))
  IN IF orderBy \notin Range(service.config.categories)
       THEN LeaderboardQueryError("Unknown category: " \o orderBy)
     ELSE IF timeframe \notin Range(service.config.timeframes)
       THEN LeaderboardQueryError("Unknown timeframe: " \o timeframe)
     ELSE [status |-> "ok", orderBy |-> orderBy, timeframe |-> timeframe, sort |-> sort,
           limit |-> limit]

\* deps.store, one of the two stores
storeGetTopRankedUsers(store, timeframe, category, limit, descending) ==
  IF store = "redis"
    THEN redisGetTopRankedUsers(redis, cfg.kind, timeframe, category, limit, descending)
    ELSE memGetTopRankedUsers(ranks, timeframe, category, limit, descending)

storeGetUserRank(store, userId, timeframe, category, descending) ==
  IF store = "redis"
    THEN redisGetUserRank(redis, cfg.kind, userId, timeframe, category, descending)
    ELSE memGetUserRank(ranks, userId, timeframe, category, descending)

storeGetScoresBatch(store, timeframe, userIds) ==
  IF store = "redis" THEN redisGetScoresBatch(redis, cfg.kind, timeframe, userIds)
  ELSE memGetScoresBatch(ranks, timeframe, userIds)

\* config.fallbackUsername ?? ((userId) => `User ${userId.slice(0, 8)}`), for
\* identifiers of at most 8 characters
fallbackUsername(userId) == "User " \o userId

\* the entry (or null) and the store calls made for it
getUserEntry(service, userId, q) ==
  LET descending == q.sort = "desc"
      ranked == storeGetUserRank(service.store, userId, q.timeframe, q.orderBy, descending)
  IN IF ranked = None THEN [entry |-> None, storeCalls |-> <<"getUserRank">>]
     ELSE LET scores == storeGetScoresBatch(service.store, q.timeframe, <<userId>>)
          IN [entry |->
                IF userId \notin DOMAIN scores THEN None
                ELSE Some([userId |-> userId, username |-> fallbackUsername(userId),
                           rank |-> ValueOf(ranked).rank, scores |-> scores[userId]]),
              storeCalls |-> <<"getUserRank", "getScoresBatch">>]

\* the response, or the error thrown, and the store calls made
getLeaderboard(service, query, currentUserId) ==
  LET q == normalizeQuery(service, query)
  IN IF q.status # "ok" THEN q
     ELSE
       LET descending == q.sort = "desc"
           rankedUsers == storeGetTopRankedUsers(service.store, q.timeframe, q.orderBy,
                                                 q.limit, descending)
       IN IF rankedUsers = None \/ Len(ValueOf(rankedUsers)) = 0
            THEN [status |-> "ok", entries |-> <<>>, user |-> None,
                  storeCalls |-> <<"getTopRankedUsers">>]
          ELSE
            LET rows == ValueOf(rankedUsers)
                userIds == [i \in 1..Len(rows) |-> rows[i].userId]
                scores == storeGetScoresBatch(service.store, q.timeframe, userIds)
                entries == [i \in 1..Len(rows) |->
                              [userId |-> rows[i].userId,
                               username |-> fallbackUsername(rows[i].userId),
                               rank |-> rows[i].rank,
                               scores |-> scores[rows[i].userId]]]
                truthy == currentUserId # None /\ ValueOf(currentUserId) # ""
                found == {i \in 1..Len(entries) :
                            truthy /\ entries[i].userId = ValueOf(currentUserId)}
                looked == IF truthy /\ found = {}
                            THEN getUserEntry(service, ValueOf(currentUserId), q)
                            ELSE [entry |-> None, storeCalls |-> <<>>]
            IN [status |-> "ok", entries |-> entries,
                user |-> IF found # {} THEN Some(entries[SetMin(found)]) ELSE looked.entry,
                storeCalls |-> <<"getTopRankedUsers", "getScoresBatch">> \o looked.storeCalls]

\* services, queries and requesters: limits absent, below, inside and above
\* [1, maxLimit]; identifiers configured, unknown to the service ("best_streak")
\* and unknown to the store ("week"); requesters in the page, outside it,
\* never ingested ("u3"), empty and absent
QueryServiceConfigs ==
  [categories : {<<"profit", "low_score">>}, defaultCategory : {"profit"},
   timeframes : {<<"day">>}, defaultTimeframe : {"day"}, defaultSort : {None},
   defaultLimit : {None, Some(3)}, maxLimit : {None, Some(2)}]
Queries ==
  [orderBy : {None, Some("low_score"), Some("best_streak")},
   timeframe : {None, Some("week")},
   sort : {None, Some("asc")},
   limit : {None, Some(-1), Some(0), Some(1), Some(2), Some(5)}]
LeaderboardQueries == {q \in Queries : q.limit \in {None, Some(1), Some(5)}}
QueryBuildDate == 1445
CurrentUserIds == {None, Some(""), Some("u1"), Some("u2"), Some("u3")}
QueryBatch == << <<"u1", dUp>>, <<"u2", dOnes>>, <<"", dDown>> >>

\* service.normalizeQuery(query) is called and returns or throws
NormalizeQuery(query) ==
  /\ svc.status = "called" /\ svc.made.status = "created" /\ svc.last = None
  /\ svc' = [svc EXCEPT !.last = Some([op |-> "normalizeQuery", query |-> query,
                                       currentUserId |-> None,
                                       out |-> normalizeQuery(svc.made, query)])]
  /\ UNCHANGED <<cfg, redis, windows, ranks, written, lastBuild, lastResult, nIngest,
                 nBuild, calls, keyed, builder>>

\* service.getLeaderboard(query, currentUserId) is called and returns or
\* throws; the store is not written
GetLeaderboard(query, currentUserId) ==
  /\ svc.status = "called" /\ svc.made.status = "created" /\ svc.last = None
  /\ svc' = [svc EXCEPT !.last = Some([op |-> "getLeaderboard", query |-> query,
                                       currentUserId |-> currentUserId,
                                       out |-> getLeaderboard(svc.made, query,
                                                              currentUserId)])]
  /\ UNCHANGED <<cfg, redis, windows, ranks, written, lastBuild, lastResult, nIngest,
                 nBuild, calls, keyed, builder>>

\* the caller has taken the outcome of its call
Return ==
  /\ svc.status = "called" /\ svc.last # None
  /\ svc' = [svc EXCEPT !.last = None]
  /\ UNCHANGED <<cfg, redis, windows, ranks, written, lastBuild, lastResult, nIngest,
                 nBuild, calls, keyed, builder>>

\* the service is created first and its calls are made one at a time
Idle == svc.status = "called" /\ svc.last = None

NextQueries ==
  \/ \E config \in QueryServiceConfigs, store \in StoreKinds : CreateService(config, store)
  \/ Idle /\ IngestWindows(QueryBatch, ConcIngestDate)
  \/ Idle /\ BuildRankingFromWindows("day", QueryBuildDate, RebuildTtlSeconds)
  \/ \E query \in Queries : NormalizeQuery(query)
  \/ \E query \in LeaderboardQueries, currentUserId \in CurrentUserIds :
       GetLeaderboard(query, currentUserId)
  \/ Return

SpecQueries == InitConc /\ [][NextQueries]_vars

-----------------------------------------------------------------------------
(* service.getLeaderboard awaits the store three times: getTopRankedUsers,   *)
(* then getScoresBatch of the users ranked, then (for a requester outside    *)
(* the page) getUserRank and getScoresBatch of getUserEntry.  Other clients' *)
(* ingests and rebuilds may commit at each await.                            *)

PageServiceConfigs ==
  [categories : {<<"profit", "low_score">>}, defaultCategory : {"profit"},
   timeframes : {<<"day">>}, defaultTimeframe : {"day"}, defaultSort : {None},
   defaultLimit : {None}, maxLimit : {None}]
PageQueries ==
  [orderBy : {None}, timeframe : {None}, sort : {None, Some("asc")}, limit : {None, Some(1)}]
PageUserIds == {None, Some("u2")}
PageBatches == { << <<"u1", dUp>>, <<"u2", dOnes>> >>, << <<"u2", dUp>> >> }

\* getLeaderboard(query, currentUserId) is called and runs up to the reply of
\* getTopRankedUsers; it returns at once when the query is rejected or no
\* user is ranked
LeaderboardTop(query, currentUserId) ==
  /\ svc.status = "called" /\ svc.made.status = "created" /\ svc.last = None
  /\ LET q == normalizeQuery(svc.made, query)
         rankedUsers == IF q.status # "ok" THEN None
                        ELSE storeGetTopRankedUsers(svc.made.store, q.timeframe, q.orderBy,
                                                    q.limit, q.sort = "desc")
         empty == rankedUsers = None \/ Len(ValueOf(rankedUsers)) = 0
     IN svc' = [svc EXCEPT !.last =
          Some([op |-> "getLeaderboard", query |-> query, currentUserId |-> currentUserId,
                q |-> q, pc |-> IF empty THEN "done" ELSE "getScoresBatch",
                rankedUsers |-> IF empty THEN <<>> ELSE ValueOf(rankedUsers),
                ranked |-> None,
                out |-> IF q.status # "ok" THEN q
                        ELSE [status |-> "ok", entries |-> <<>>, user |-> None]])]
  /\ UNCHANGED <<cfg, redis, windows, ranks, written, lastBuild, lastResult, nIngest,
                 nBuild, calls, keyed, builder>>

\* the getLeaderboard call in flight receives the reply it awaits and runs up
\* to its next await or to its return
LeaderboardResume ==
  /\ svc.status = "called" /\ svc.last # None
  /\ ValueOf(svc.last).op = "getLeaderboard" /\ ValueOf(svc.last).pc # "done"
  /\ LET call == ValueOf(svc.last)
         q == call.q
         rows == call.rankedUsers
         truthy == call.currentUserId # None /\ ValueOf(call.currentUserId) # ""
     IN svc' = [svc EXCEPT !.last = Some(
          IF call.pc = "getScoresBatch"
            THEN LET userIds == [i \in 1..Len(rows) |-> rows[i].userId]
                     scores == storeGetScoresBatch(svc.made.store, q.timeframe, userIds)
                     entries == [i \in 1..Len(rows) |->
                                   [userId |-> rows[i].userId,
                                    username |-> fallbackUsername(rows[i].userId),
                                    rank |-> rows[i].rank,
                                    scores |-> scores[rows[i].userId]]]
                     found == {i \in 1..Len(entries) :
                                 truthy /\ entries[i].userId = ValueOf(call.currentUserId)}
                 IN [call EXCEPT
                       !.pc = IF truthy /\ found = {} THEN "getUserRank" ELSE "done",
                       !.out = [status |-> "ok", entries |-> entries,
                                user |-> IF found # {} THEN Some(entries[SetMin(found)])
                                         ELSE None]]
          ELSE IF call.pc = "getUserRank"
            THEN LET ranked == storeGetUserRank(svc.made.store, ValueOf(call.currentUserId),
                                                q.timeframe, q.orderBy, q.sort = "desc")
                 IN [call EXCEPT !.pc = IF ranked = None THEN "done" ELSE "userScores",
                                 !.ranked = ranked]
          ELSE LET userId == ValueOf(call.currentUserId)
                   scores == storeGetScoresBatch(svc.made.store, q.timeframe, <<userId>>)
               IN [call EXCEPT
                     !.pc = "done",
                     !.out.user =
                        IF userId \notin DOMAIN scores THEN None
                        ELSE Some([userId |-> userId,
                                   username |-> fallbackUsername(userId),
                                   rank |-> ValueOf(call.ranked).rank,
                                   scores |-> scores[userId]])])]
  /\ UNCHANGED <<cfg, redis, windows, ranks, written, lastBuild, lastResult, nIngest,
                 nBuild, calls, keyed, builder>>

\* one getLeaderboard call at a time, ingests and rebuilds of "day" (without
\* a TTL) at any moment
NextPages ==
  \/ \E config \in PageServiceConfigs, store \in StoreKinds : CreateService(config, store)
  \/ svc.status = "called" /\ \E batch \in PageBatches : IngestWindows(batch, ConcIngestDate)
  \/ svc.status = "called" /\ BuildRankingFromWindows("day", QueryBuildDate, 0)
  \/ \E query \in PageQueries, currentUserId \in PageUserIds :
       LeaderboardTop(query, currentUserId)
  \/ LeaderboardResume
  \/ svc.status = "called" /\ svc.last # None /\ ValueOf(svc.last).pc = "done" /\ Return

SpecPages == InitConc /\ [][NextPages]_vars

-----------------------------------------------------------------------------
(* The query API of a schema runtime (createLbQuery): query.user and         *)
(* query.list, on the store that createRedisLb or createMemoryLb wires in    *)

\* the literals of getTopOrBottomWithScores: query.limit ?? 25 and
\* definition.defaults.maxLimit ?? 100
LIST_LIMIT == 25
LIST_MAX_LIMIT == 100

\* Object.keys(definition.leaderboards)
allBoards == Categories

\* reading `.timeframes` of a board the definition does not have
TypeError(message) == [status |-> "TypeError", message |-> message, storeCalls |-> <<>>]

\* the outcome of assertSupported(board, timeframe): it returns or throws
assertSupported(board, timeframe) ==
  IF board \notin DOMAIN SchemaBoardTimeframes
    THEN TypeError("Cannot read properties of undefined (reading 'timeframes')")
  ELSE IF ~includes(SchemaBoardTimeframes[board], timeframe)
    THEN LeaderboardQueryError("Leaderboard \"" \o board
                                 \o "\" does not support timeframe \"" \o timeframe \o "\"")
  ELSE [status |-> "ok"]

\* scores of the included boards: null for a board without the timeframe
buildScoreMap(timeframe, userScores, include) ==
  [board \in Range(include) |->
     IF includes(SchemaBoardTimeframes[board], timeframe)
       THEN Some(IF userScores # None /\ board \in DOMAIN ValueOf(userScores)
                   THEN ValueOf(userScores)[board] ELSE 0)
       ELSE None]

\* map.get(userId)
mapGet(map, userId) == IF userId \in DOMAIN map THEN Some(map[userId]) ELSE None

\* query.user: the row (or null), or the error thrown, and the store calls
getUserRankWithScores(defaults, store, query) ==
  LET supported == assertSupported(query.leaderboard, query.timeframe)
  IN IF supported.status # "ok" THEN supported
     ELSE
       LET descending == orElse(query.direction, orElse(defaults.sort, "desc")) = "desc"
           ranked == storeGetUserRank(store, query.userId, query.timeframe,
                                      query.leaderboard, descending)
       IN IF ranked = None
            THEN [status |-> "ok", rows |-> None, storeCalls |-> <<"getUserRank">>]
          ELSE
            LET include == Unique(<<query.leaderboard>> \o allBoards)
                scoreRows == storeGetScoresBatch(store, query.timeframe, <<query.userId>>)
            IN [status |-> "ok",
                rows |-> Some([userId |-> ValueOf(ranked).userId,
                               rank |-> ValueOf(ranked).rank,
                               score |-> ValueOf(ranked).score,
                               scores |-> buildScoreMap(query.timeframe,
                                                        mapGet(scoreRows, query.userId),
                                                        include)]),
                storeCalls |-> <<"getUserRank", "getScoresBatch">>]

\* query.list: the rows, or the error thrown, the store calls and the limit
\* asked of the store
getTopOrBottomWithScores(defaults, store, query) ==
  LET supported == assertSupported(query.leaderboard, query.timeframe)
  IN IF supported.status # "ok" THEN supported
     ELSE
       LET descending == orElse(query.direction, orElse(defaults.sort, "desc")) = "desc"
           limit == Max2(1, Min2(orElse(defaults.maxLimit, LIST_MAX_LIMIT),
                                 orElse(query.limit, LIST_LIMIT)))
           ranked == storeGetTopRankedUsers(store, query.timeframe, query.leaderboard,
                                            limit, descending)
       IN IF ranked = None \/ Len(ValueOf(ranked)) = 0
            THEN [status |-> "ok", rows |-> <<>>, limit |-> limit,
                  storeCalls |-> <<"getTopRankedUsers">>]
          ELSE
            LET entries == ValueOf(ranked)
                include == Unique(<<query.leaderboard>> \o allBoards)
                userIds == [i \in 1..Len(entries) |-> entries[i].userId]
                scoreRows == storeGetScoresBatch(store, query.timeframe, userIds)
            IN [status |-> "ok",
                rows |-> [i \in 1..Len(entries) |->
                            [userId |-> entries[i].userId,
                             rank |-> entries[i].rank,
                             score |-> entries[i].score,
                             scores |-> buildScoreMap(query.timeframe,
                                                      mapGet(scoreRows, entries[i].userId),
                                                      include)]],
                limit |-> limit,
                storeCalls |-> <<"getTopRankedUsers", "getScoresBatch">>]

\* bundleFromSchema(definition).service
schemaService(defaults) ==
  [categories |-> Categories, defaultCategory |-> defaults.leaderboard,
   timeframes |-> Timeframes, defaultTimeframe |-> defaults.timeframe,
   defaultSort |-> defaults.sort, defaultLimit |-> defaults.limit,
   maxLimit |-> defaults.maxLimit]

\* definition.defaults; queries of boards with both timeframes ("profit"),
\* with "lifetime" alone ("best_streak") and outside the schema ("xp"), of
\* timeframes of the schema and outside it ("week")
SchemaDefaults ==
  [leaderboard : {"profit"}, timeframe : {"lifetime"}, sort : {None},
   limit : {None, Some(3)}, maxLimit : {None, Some(2)}]
ListQueries ==
  [leaderboard : {"profit", "best_streak", "xp"}, timeframe : {"day", "lifetime", "week"},
   direction : {None, Some("asc")}, limit : {None, Some(0), Some(1), Some(5)}]
UserQueries ==
  [leaderboard : {"profit", "best_streak", "xp"}, timeframe : {"day", "lifetime", "week"},
   direction : {None}, userId : {"u1", "u3"}]

\* createRedisLb(client, definition) / createMemoryLb(definition): the
\* service of the bundle is created and the query API is bound to the store
CreateLb(defaults, store) ==
  /\ svc = NoService
  /\ svc' = [made |-> createLeaderboardService(schemaService(defaults), store),
             given |-> schemaService(defaults), defaults |-> defaults,
             status |-> "called", last |-> None]
  /\ UNCHANGED <<cfg, redis, windows, ranks, written, lastBuild, lastResult, nIngest,
                 nBuild, calls, keyed, builder>>

\* runtime.query.list(query) is called and returns or throws
LbList(query) ==
  /\ svc.status = "called" /\ svc.made.status = "created" /\ svc.last = None
  /\ svc' = [svc EXCEPT !.last =
               Some([op |-> "list", query |-> query, currentUserId |-> None,
                     out |-> getTopOrBottomWithScores(svc.defaults, svc.made.store, query)])]
  /\ UNCHANGED <<cfg, redis, windows, ranks, written, lastBuild, lastResult, nIngest,
                 nBuild, calls, keyed, builder>>

\* runtime.query.user(query) is called and returns or throws
LbUser(query) ==
  /\ svc.status = "called" /\ svc.made.status = "created" /\ svc.last = None
  /\ svc' = [svc EXCEPT !.last =
               Some([op |-> "user", query |-> query, currentUserId |-> None,
                     out |-> getUserRankWithScores(svc.defaults, svc.made.store, query)])]
  /\ UNCHANGED <<cfg, redis, windows, ranks, written, lastBuild, lastResult, nIngest,
                 nBuild, calls, keyed, builder>>

NextLb ==
  \/ \E defaults \in SchemaDefaults, store \in StoreKinds : CreateLb(defaults, store)
  \/ Idle /\ IngestWindows(QueryBatch, ConcIngestDate)
  \/ Idle /\ \E timeframe \in TimeframeSet :
              BuildRankingFromWindows(timeframe, QueryBuildDate, RebuildTtlSeconds)
  \/ \E query \in ListQueries : LbList(query)
  \/ \E query \in UserQueries : LbUser(query)
  \/ Return

\* the stores under the configuration bundleFromSchema derives
InitSchema == cfg = [kind |-> "schema"] /\ InitStores

SpecLb == InitSchema /\ [][NextLb]_vars

-----------------------------------------------------------------------------
(* Key formatting, for identifiers with and without the ':' separator        *)

KeyIdentifiers == {"a", "a:b", "b:c", "c"}
SeparatorFree == {"a", "c"}
KeyTokens == {"h", "all"}
KeyDates == {1410, 1415, 1445}
KeyInputs ==
  [timeframe : KeyIdentifiers, category : KeyIdentifiers, token : KeyTokens, date : KeyDates]

\* the time bucket of a date under a token
bucketOf(token, date) == IF token = "all" THEN "" ELSE formatWindowTs(date, token)

\* every key the stores and the bundles format for the identifiers
keysOf(in) ==
  [window |-> windowKey(in.timeframe, in.category),
   rank |-> rankKey(in.timeframe, in.category),
   memWindow |-> memWindowKey(in.timeframe, in.category),
   memRank |-> memRankKey(in.timeframe, in.category),
   bundleRank |-> bundleRankKey(in.timeframe, in.category),
   bundleWindow |-> bundleWindowKey(in.token, in.date, in.category)]

\* the keys of two sets of identifiers are formatted
FormatKeys(a, b) ==
  /\ keyed = <<>>
  /\ keyed' = <<[in |-> a, keys |-> keysOf(a)], [in |-> b, keys |-> keysOf(b)]>>
  /\ UNCHANGED <<cfg, redis, windows, ranks, written, lastBuild, lastResult, nIngest,
                 nBuild, calls, svc, builder>>

NextKeys == \E a \in KeyInputs, b \in KeyInputs : FormatKeys(a, b)

SpecKeys == InitConc /\ [][NextKeys]_vars

-----------------------------------------------------------------------------
(* Source keys of a rebuild, for every category, timeframe and reference     *)
(* time, and the dates of rolling specifications of every unit and size      *)

\* reference times: Jan 1 23:30, Jan 2 00:00, Jan 2 00:05, Jan 2 01:00,
\* Jan 4 00:00 and Jan 4 00:59
SourceDates == {1410, 1440, 1445, 1500, 4320, 4379}

\* { type: "rolling", unit, size } for sizes around the smallest allowed
SourceSpecs == [type : {"rolling"}, unit : {"hour", "day"}, size : {0, 1, 2, 3}]

\* config.resolveBuildSourceKeys({ timeframe, category, date }) next to the
\* keys the canonical timeframe resolves for an ingest at the same date, and
\* rollingDates(spec, date)
ResolveSources(category, timeframe, date, spec) ==
  /\ keyed = <<>>
  /\ keyed' = <<[category |-> category, timeframe |-> timeframe, date |-> date,
                 spec |-> spec,
                 sources |-> resolveBuildSourceKeys(cfg.kind, timeframe, category, date),
                 ingest |-> resolveIngestKeys(cfg.kind, canonicalIngestTimeframe,
                                              category, date),
                 dates |-> rollingDates(spec, date)]>>
  /\ UNCHANGED <<cfg, redis, windows, ranks, written, lastBuild, lastResult, nIngest,
                 nBuild, calls, svc, builder>>

NextSources ==
  \E category \in CategorySet, timeframe \in TimeframeSet, date \in SourceDates,
     spec \in SourceSpecs : ResolveSources(category, timeframe, date, spec)

SpecSources == Init /\ [][NextSources]_vars

TypeOK ==
  /\ cfg.kind \in ConfigKinds
  /\ nIngest \in 0..MaxCalls
  /\ nBuild \in 0..MaxCalls
  /\ lastResult \in {"ok", "rejected"}

\* the step is the call buildRankingFromWindows(call[1], call[2], call[3]);
\* the first conjuncts follow from the action and only spare evaluating it
BuildStep(call) ==
  /\ nBuild' = nBuild + 1
  /\ lastBuild'[call[1]].done
  /\ lastBuild'[call[1]].date = call[2]
  /\ ~lastBuild'[call[1]].dirty
  /\ BuildRankingFromWindows(call[1], call[2], call[3])

\* the step is a call of ingestWindows
IngestStep == nIngest' = nIngest + 1

-----------------------------------------------------------------------------
(* Properties of ingest followed by rebuild *)

\* the source keys of a rebuild that hold a written delta of the user
WrittenSources(kind, timeframe, category, date, userId) ==
  {k \in Range(resolveBuildSourceKeys(kind, timeframe, category, date)) :
     WritesOf(written, k, userId).deltas # {}}

\* all deltas of the user written to the source keys of a rebuild
WrittenDeltas(kind, timeframe, category, date, userId) ==
  UNION {WritesOf(written, k, userId).deltas :
           k \in Range(resolveBuildSourceKeys(kind, timeframe, category, date))}

WrittenTotal(kind, timeframe, category, date, userId) ==
  LET ks == WrittenSources(kind, timeframe, category, date, userId)
  IN SumOver(ks, [k \in ks |-> WritesOf(written, k, userId).total])

\* the score the policy demands for the deltas written to the source keys
ExpectedScore(kind, timeframe, category, date, userId) ==
  LET strategy == aggregationForCategory(category)
  IN IF strategy = "sum" THEN WrittenTotal(kind, timeframe, category, date, userId)
     ELSE IF strategy = "max"
       THEN SetMax(WrittenDeltas(kind, timeframe, category, date, userId))
     ELSE SetMin(WrittenDeltas(kind, timeframe, category, date, userId))

\* after the step, the Redis rank structure holds exactly the users with a
\* written delta in a source key, each with the policy's score
RebuiltAsWritten(timeframe, category, date) ==
  LET rank == RedisRank(redis', cfg.kind, timeframe, category)
  IN \A u \in UserSet :
       LET has == WrittenSources(cfg.kind, timeframe, category, date, u) # {}
       IN /\ (u \in DOMAIN rank) <=> has
          /\ has => rank[u] = ExpectedScore(cfg.kind, timeframe, category, date, u)

\* C1: with RedisLeaderboardStore, after ingestWindows calls with non-zero
\* deltas for a sum category, buildRankingFromWindows leaves each user's
\* score in the rank structure equal to the arithmetic sum of the user's
\* deltas written to the window keys the rebuild resolves as its sources.
C1_SumRebuild ==
  [][\A call \in BuildCalls :
       BuildStep(call) =>
         \A c \in CategorySet :
           aggregationForCategory(c) = "sum" => RebuiltAsWritten(call[1], c, call[2])]_vars

\* a sum rank structure that adds deltas of two hourly buckets and of two calls
C1_Witness ==
  /\ cfg.kind = "declarative"
  /\ lastBuild["day"].done /\ ~lastBuild["day"].dirty
  /\ "u1" \in DOMAIN RedisRank(redis, cfg.kind, "day", "profit")
  /\ RedisRank(redis, cfg.kind, "day", "profit")["u1"] = 4
  /\ \E k1, k2 \in DOMAIN written :
       /\ k1 # k2
       /\ WritesOf(written, k1, "u1").total = 2
       /\ WritesOf(written, k2, "u1").total = 2
       /\ {k1, k2} \subseteq
            Range(resolveBuildSourceKeys(cfg.kind, "day", "profit", lastBuild["day"].date))

\* C2: with RedisLeaderboardStore, for a max (min) category the score a
\* rebuild stores for a user is the maximum (minimum) of the user's deltas
\* written to the source keys, within one bucket and across buckets.
C2_ExtremumRebuild ==
  [][\A call \in BuildCalls :
       BuildStep(call) =>
         \A c \in CategorySet :
           aggregationForCategory(c) \in {"max", "min"} =>
             RebuiltAsWritten(call[1], c, call[2])]_vars

\* max and min taken over different deltas of two hourly buckets
C2_Witness ==
  /\ cfg.kind = "declarative"
  /\ lastBuild["day"].done /\ ~lastBuild["day"].dirty
  /\ "u1" \in DOMAIN RedisRank(redis, cfg.kind, "day", "best_streak")
  /\ "u1" \in DOMAIN RedisRank(redis, cfg.kind, "day", "low_score")
  /\ RedisRank(redis, cfg.kind, "day", "best_streak")["u1"] = 2
  /\ RedisRank(redis, cfg.kind, "day", "low_score")["u1"] = 1
  /\ WrittenDeltas(cfg.kind, "day", "best_streak", lastBuild["day"].date, "u1") = {1, 2}
  /\ Cardinality(WrittenSources(cfg.kind, "day", "best_streak",
                                lastBuild["day"].date, "u1")) = 2

-----------------------------------------------------------------------------
(* Properties of the two stores side by side *)

\* C3: MemoryLeaderboardStore and RedisLeaderboardStore, set up alike and
\* driven by the same ingestWindows and buildRankingFromWindows calls, return
\* identical results from getTopRankedUsers, getUserRank and getScoresBatch.
C3_StoresAgree ==
  \A tf \in TimeframeSet :
    /\ \A c \in CategorySet, desc \in Orderings :
         /\ \A limit \in Limits :
              redisGetTopRankedUsers(redis, cfg.kind, tf, c, limit, desc)
                = memGetTopRankedUsers(ranks, tf, c, limit, desc)
         /\ \A u \in ReadUsers :
              redisGetUserRank(redis, cfg.kind, u, tf, c, desc)
                = memGetUserRank(ranks, u, tf, c, desc)
    /\ \A ids \in UserIdLists :
         redisGetScoresBatch(redis, cfg.kind, tf, ids) = memGetScoresBatch(ranks, tf, ids)

-----------------------------------------------------------------------------
(* Properties of the rank structure between rebuilds *)

\* the merge of the sorted sets at keys under an aggregation policy: a user
\* is present iff present in one of them, with the sum, maximum or minimum of
\* the user's scores
PolicyMerge(db, keys, strategy) ==
  LET holders(u) == {k \in Range(keys) : u \in DOMAIN ZSetOf(db, k)}
  IN [u \in {v \in UserSet : holders(v) # {}} |->
        IF strategy = "sum"
          THEN SumOver(holders(u), [k \in holders(u) |-> ZSetOf(db, k)[u]])
        ELSE IF strategy = "max"
          THEN SetMax({ZSetOf(db, k)[u] : k \in holders(u)})
        ELSE SetMin({ZSetOf(db, k)[u] : k \in holders(u)})]

\* the step leaves in every rank structure of the timeframe the merge of its
\* source buckets as they are when the step starts; the source of the
\* in-memory store is its window bucket of (timeframe, category)
CommitsMerge(timeframe, date) ==
  \A c \in CategorySet :
    /\ RedisRank(redis', cfg.kind, timeframe, c)
         = PolicyMerge(redis, resolveBuildSourceKeys(cfg.kind, timeframe, c, date),
                       aggregationForCategory(c))
    /\ MemRankExists(ranks', timeframe, c)
    /\ MemRank(ranks', timeframe, c)
         = IF memWindowKey(timeframe, c) \in DOMAIN windows
             THEN windows[memWindowKey(timeframe, c)] ELSE <<>>

\* the step is a rebuild of the timeframe
RebuildOf(timeframe) ==
  \E call \in BuildCalls : call[1] = timeframe /\ BuildStep(call)

\* the step leaves the rank structures of the timeframe as they are
RankKept(timeframe) ==
  \A c \in CategorySet :
    /\ RedisRank(redis', cfg.kind, timeframe, c) = RedisRank(redis, cfg.kind, timeframe, c)
    /\ MemRank(ranks', timeframe, c) = MemRank(ranks, timeframe, c)

\* as RankKept, but a Redis rank key in the last second of its TTL may vanish
RankKeptOrExpired(timeframe) ==
  \A c \in CategorySet :
    /\ \/ RedisRank(redis', cfg.kind, timeframe, c) = RedisRank(redis, cfg.kind, timeframe, c)
       \/ /\ ttl(redis, resolveRankKey(cfg.kind, timeframe, c)) = 1
          /\ ~Exists(redis', resolveRankKey(cfg.kind, timeframe, c))
    /\ MemRank(ranks', timeframe, c) = MemRank(ranks, timeframe, c)

-----------------------------------------------------------------------------
(* Properties of the reads *)

\* C5: getTopRankedUsers returns null in every state before the first rebuild
\* of the timeframe and a list, possibly empty, in every state after one.
C5_NullOnlyBeforeRebuild ==
  \A tf \in TimeframeSet, c \in CategorySet, limit \in Limits, desc \in Orderings :
    LET onRedis == redisGetTopRankedUsers(redis, cfg.kind, tf, c, limit, desc)
        inMemory == memGetTopRankedUsers(ranks, tf, c, limit, desc)
    IN IF lastBuild[tf].done
         THEN onRedis # None /\ inMemory # None
         ELSE onRedis = None /\ inMemory = None

\* the entry is a row of the non-null list top
InTop(entry, top) ==
  /\ top # None
  /\ \E i \in 1..Len(ValueOf(top)) : ValueOf(top)[i] = ValueOf(entry)

\* C6: an entry getUserRank returns carries the rank and score that
\* getTopRankedUsers gives the user at the same ordering with a limit that
\* includes everyone, and getUserRank returns null exactly when the rank
\* structure is missing or has no entry of the user; on both stores.
C6_UserRankMatchesTop ==
  \A tf \in TimeframeSet, c \in CategorySet, desc \in Orderings, u \in ReadUsers :
    LET onRedis == redisGetUserRank(redis, cfg.kind, u, tf, c, desc)
        inMemory == memGetUserRank(ranks, u, tf, c, desc)
    IN /\ onRedis # None =>
            InTop(onRedis, redisGetTopRankedUsers(redis, cfg.kind, tf, c, FullLimit, desc))
       /\ onRedis = None <=>
            \/ ~Exists(redis, resolveRankKey(cfg.kind, tf, c))
            \/ u \notin DOMAIN RedisRank(redis, cfg.kind, tf, c)
       /\ inMemory # None =>
            InTop(inMemory, memGetTopRankedUsers(ranks, tf, c, FullLimit, desc))
       /\ inMemory = None <=>
            \/ ~MemRankExists(ranks, tf, c)
            \/ ~MapHas(MemRank(ranks, tf, c), u)

\* both users ranked on both stores, second place differing by ordering
C6_Witness ==
  /\ redisGetUserRank(redis, cfg.kind, "u1", "lifetime", "profit", TRUE)
       = Some([userId |-> "u1", score |-> 2, rank |-> 1])
  /\ redisGetUserRank(redis, cfg.kind, "u2", "lifetime", "profit", TRUE)
       = Some([userId |-> "u2", score |-> 0, rank |-> 2])
  /\ redisGetUserRank(redis, cfg.kind, "u2", "lifetime", "profit", FALSE)
       = Some([userId |-> "u2", score |-> 0, rank |-> 1])
  /\ memGetUserRank(ranks, "u2", "lifetime", "profit", TRUE)
       = Some([userId |-> "u2", score |-> 0, rank |-> 2])
  /\ redisGetUserRank(redis, cfg.kind, "u3", "lifetime", "profit", TRUE) = None

\* rows is what getTopRankedUsers owes for the scores (userId -> score):
\* at most limit rows, the best ones, in score order, ranked 1..n by position
IsTopOf(rows, scores, limit, descending) ==
  LET better(a, b) == IF descending THEN a > b ELSE a < b
  IN /\ Len(rows) <= limit
     /\ Len(rows) = Min2(limit, Cardinality(DOMAIN scores))
     /\ \A i \in 1..Len(rows) :
          /\ rows[i].rank = i
          /\ rows[i].userId \in DOMAIN scores
          /\ rows[i].score = scores[rows[i].userId]
     /\ \A i, j \in 1..Len(rows) :
          /\ i < j => ~better(rows[j].score, rows[i].score)
          /\ i # j => rows[i].userId # rows[j].userId
     /\ \A u \in DOMAIN scores :
          (\A i \in 1..Len(rows) : rows[i].userId # u) =>
            \A i \in 1..Len(rows) : ~better(scores[u], rows[i].score)

\* the in-memory rank structure as userId -> score
MemScores(rankMap, timeframe, category) ==
  LET m == MemRank(rankMap, timeframe, category)
  IN [u \in {m[i].userId : i \in 1..Len(m)} |-> MapGet(m, u)]

\* C7: for every limit and ordering a non-null result of getTopRankedUsers
\* has at most limit entries, the best ones of the rank structure, ordered by
\* score and ranked 1, 2, ..., n by position.
C7_TopWithinLimit ==
  \A tf \in TimeframeSet, c \in CategorySet, limit \in Limits, desc \in Orderings :
    LET onRedis == redisGetTopRankedUsers(redis, cfg.kind, tf, c, limit, desc)
        inMemory == memGetTopRankedUsers(ranks, tf, c, limit, desc)
    IN /\ onRedis # None =>
            IsTopOf(ValueOf(onRedis), RedisRank(redis, cfg.kind, tf, c), limit, desc)
       /\ inMemory # None =>
            IsTopOf(ValueOf(inMemory), MemScores(ranks, tf, c), limit, desc)

\* the user has an entry in no Redis / in-memory rank structure of the timeframe
UnrankedOnRedis(timeframe, u) ==
  \A c \in CategorySet : u \notin DOMAIN RedisRank(redis, cfg.kind, timeframe, c)

UnrankedInMemory(timeframe, u) ==
  \A c \in CategorySet : u \notin DOMAIN MemScores(ranks, timeframe, c)

\* C8: for a non-empty list of user ids getScoresBatch returns, for every
\* requested user, one score per configured category: the user's score in that
\* category's rank structure, 0 without an entry or without the structure; a
\* user in no rank structure gets all zeros and null from getUserRank.
C8_ScoresBatchComplete ==
  \A tf \in TimeframeSet, ids \in UserIdLists :
    LET onRedis == redisGetScoresBatch(redis, cfg.kind, tf, ids)
        inMemory == memGetScoresBatch(ranks, tf, ids)
    IN /\ DOMAIN onRedis = Range(ids)
       /\ DOMAIN inMemory = Range(ids)
       /\ \A u \in Range(ids) :
            /\ DOMAIN onRedis[u] = CategorySet
            /\ DOMAIN inMemory[u] = CategorySet
            /\ \A c \in CategorySet :
                 /\ onRedis[u][c] =
                      IF u \in DOMAIN RedisRank(redis, cfg.kind, tf, c)
                        THEN RedisRank(redis, cfg.kind, tf, c)[u] ELSE 0
                 /\ inMemory[u][c] =
                      IF u \in DOMAIN MemScores(ranks, tf, c)
                        THEN MemScores(ranks, tf, c)[u] ELSE 0
            /\ UnrankedOnRedis(tf, u) =>
                 \A c \in CategorySet :
                   /\ onRedis[u][c] = 0
                   /\ \A desc \in Orderings :
                        redisGetUserRank(redis, cfg.kind, u, tf, c, desc) = None
            /\ UnrankedInMemory(tf, u) =>
                 \A c \in CategorySet :
                   /\ inMemory[u][c] = 0
                   /\ \A desc \in Orderings :
                        memGetUserRank(ranks, u, tf, c, desc) = None

\* a batch of a ranked and a never ingested user, read from resolved rank
\* keys of which one does not exist
C8_Witness ==
  /\ cfg.kind = "schema"
  /\ ~Exists(redis, resolveRankKey(cfg.kind, "day", "best_streak"))
  /\ redisGetScoresBatch(redis, cfg.kind, "day", <<"u3", "u1">>)
       = [u3 |-> [profit |-> 0, best_streak |-> 0, low_score |-> 0],
          u1 |-> [profit |-> 2, best_streak |-> 0, low_score |-> 2]]
  /\ memGetScoresBatch(ranks, "day", <<"u3", "u1">>)["u3"]
       = [profit |-> 0, best_streak |-> 0, low_score |-> 0]
  /\ memGetScoresBatch(ranks, "day", <<"u3", "u1">>)["u1"]["profit"] = 2

-----------------------------------------------------------------------------
(* Properties of repeated rebuilds *)

\* C9: a rebuild of a timeframe at the reference time of the timeframe's
\* latest rebuild, with no ingest since, leaves every rank structure of the
\* timeframe as that latest rebuild left it, on both stores.
C9_RebuildIdempotent ==
  [][\A call \in BuildCalls :
       ( /\ lastBuild[call[1]].done
         /\ lastBuild[call[1]].date = call[2]
         /\ ~lastBuild[call[1]].dirty
         /\ BuildStep(call) ) =>
           /\ RedisRanks(redis', cfg.kind, call[1]) = lastBuild[call[1]].redisRanks
           /\ MemRanks(ranks', call[1]) = lastBuild[call[1]].memRanks]_vars

\* two rebuilds of the same timeframe and reference time after the same
\* ingests, the sum scores not doubled
C9_Witness ==
  /\ cfg.kind = "declarative"
  /\ lastBuild["day"].again
  /\ lastBuild["day"].redisRanks["profit"] = [u1 |-> 4]
  /\ RedisRank(redis, cfg.kind, "day", "profit") = [u1 |-> 4]
  /\ MemRank(ranks, "day", "profit") = <<[userId |-> "u1", score |-> 4]>>

-----------------------------------------------------------------------------
(* Properties of a failing ingest *)

\* C10: one ingestWindows call is atomic; in particular, when the call fails
\* (its promise rejects) none of its deltas is applied: the keyspace is as it
\* was before the call.
C10_FailedIngestAppliesNothing ==
  [][(IngestStep /\ lastResult' = "rejected") => redis' = redis]_vars

-----------------------------------------------------------------------------
(* Properties of calls that overlap in time *)

\* every call made so far has completed
AllCompleted == calls # <<>> /\ \A i \in 1..Len(calls) : calls[i].pc = "done"

\* the window bucket at key holds exactly the users with a written delta,
\* each with the total, the largest or the smallest of them
BucketAsWritten(key, strategy) ==
  \A u \in UserSet :
    LET w == WritesOf(written, key, u)
        z == ZSetOf(redis, key)
    IN /\ (u \in DOMAIN z) <=> (w.deltas # {})
       /\ w.deltas # {} =>
            z[u] = IF strategy = "sum" THEN w.total
                   ELSE IF strategy = "max" THEN SetMax(w.deltas)
                   ELSE SetMin(w.deltas)

\* the key of the all-time bucket of a category, which takes every delta of
\* every call once
AllTimeKey(category) == bundleWindowKey("all", ConcIngestDate, category)

CommitStep(i) == calls[i].pc = "sent" /\ calls'[i].pc = "done"

\* C13: when buildRankingFromWindows calls for the same timeframe overlap,
\* among themselves and with ingests, the batch of each rebuild replaces
\* every rank structure of the timeframe by the policy-merge of its source
\* buckets as they are when the server runs it, and the batch of an ingest
\* leaves the rank structures alone; so once all have completed each rank
\* structure is the result of the rebuild whose batch ran last, never a
\* union or mixture of two rebuilds' results.
C13_LastCommitWins ==
  [][\A i \in 1..Len(calls) :
       CommitStep(i) =>
         \A c \in CategorySet :
           RedisRank(redis', cfg.kind, "day", c)
             = IF calls[i].op = "build"
                 THEN PolicyMerge(redis,
                                  resolveBuildSourceKeys(cfg.kind, calls[i].timeframe, c,
                                                         calls[i].date),
                                  aggregationForCategory(c))
                 ELSE RedisRank(redis, cfg.kind, "day", c)]_vars

\* an ingest has completed, then two rebuilds of "day" overlapped and the
\* server ran the later call first: the rank structures are those of the
\* earlier call, whose rolling window still covers the ingested hour, and not
\* those of the later one (empty)
C13_Witness ==
  /\ AllCompleted
  /\ \E i, j, k \in 1..Len(calls) :
       /\ calls[i].op = "ingest" /\ calls[i].seq = 1
       /\ i < j /\ j < k
       /\ calls[j].op = "build" /\ calls[j].date = 1445 /\ calls[j].seq = Len(calls)
       /\ calls[k].op = "build" /\ calls[k].date = 1500 /\ calls[k].seq = Len(calls) - 1
  /\ nIngest = 1
  /\ RedisRank(redis, cfg.kind, "day", "profit") = ("u1" :> 2)
  /\ lastBuild["day"].date = 1445

\* C12: a read that overlaps one rebuild observes one version of the rank
\* structure: what a getUserRank or getTopRankedUsers call returns is what
\* the call returns on the structure as it was before the rebuild or on the
\* structure as it is after it, never a mix of the two.
C12_ReadsOneVersion ==
  \A i \in 1..Len(calls) :
    (calls[i].pc = "done" /\ calls[i].overlapped <= 1) =>
      calls[i].result \in {calls[i].pre, calls[i].post}

\* a read that overlaps no rebuild returns what it returns on the keyspace
UndisturbedReadIsAtomic ==
  \A i \in 1..Len(calls) :
    (calls[i].pc = "done" /\ calls[i].overlapped = 0) =>
      calls[i].result = calls[i].pre /\ calls[i].pre = calls[i].post

-----------------------------------------------------------------------------
(* Properties of the service *)

\* C14: service.rebuild(timeframes) issues one rebuild per requested
\* timeframe, and when one of them fails it logs (given a logger) and
\* rejects to the caller only after every one of them has settled: when the
\* caller has the error, no per-timeframe rebuild of the call is in flight.
C14_RejectsAfterAllSettled ==
  svc.status = "rejected" =>
    /\ svc.logged = (IF svc.logger THEN 1 ELSE 0)
    /\ svc.inFlight = 0

\* the parts of C14 that hold: the failure is logged once when a logger is
\* supplied, the call fulfils only when every rebuild has, and a rebuild that
\* fulfilled after the rejection still stored its rank structures
RebuildSettlesAsPromiseAll ==
  /\ svc.status = "rejected" => svc.logged = (IF svc.logger THEN 1 ELSE 0)
  /\ svc.status = "resolved" => \A i \in OfRebuild(calls) : calls[i].pc = "done"
  /\ svc.status = "rejected" => \E i \in OfRebuild(calls) : calls[i].pc = "failed"

\* C17: createLeaderboardService throws LeaderboardConfigError, and returns
\* no service, exactly when the category set is empty, the default category
\* is not in the category set, the timeframe set is empty, the default
\* timeframe is not in the timeframe set, or the (defaulted) default limit or
\* max limit is below 1; for every other configuration it returns a service.
C17_ConfigErrorExactly ==
  svc.status = "called" =>
    LET config == svc.given
        invalid ==
          \/ config.categories = <<>>
          \/ config.defaultCategory \notin Range(config.categories)
          \/ config.timeframes = <<>>
          \/ config.defaultTimeframe \notin Range(config.timeframes)
          \/ (config.defaultLimit # None /\ ValueOf(config.defaultLimit) < 1)
          \/ (config.maxLimit # None /\ ValueOf(config.maxLimit) < 1)
    IN /\ invalid <=> svc.made.status = "LeaderboardConfigError"
       /\ ~invalid <=> svc.made.status = "created"
       /\ invalid => DOMAIN svc.made = {"status", "message"}

\* construction refused for an empty timeframe set alone, which the code
\* does not test by itself
C17_Witness ==
  /\ svc.status = "called"
  /\ svc.given.categories = Categories /\ svc.given.defaultCategory = "profit"
  /\ svc.given.timeframes = <<>>
  /\ svc.given.defaultLimit = Some(1) /\ svc.given.maxLimit = None
  /\ svc.made = LeaderboardConfigError("defaultTimeframe must be in timeframes")

\* the step is a call of the service's op returning or throwing
Returned(op) ==
  /\ svc.status = "called" /\ svc.last = None
  /\ svc'.status = "called" /\ svc'.last # None
  /\ ValueOf(svc'.last).op = op

\* the category and the timeframe a query asks for
AskedCategory(query) ==
  IF query.orderBy = None THEN svc.given.defaultCategory ELSE ValueOf(query.orderBy)

AskedTimeframe(query) ==
  IF query.timeframe = None THEN svc.given.defaultTimeframe ELSE ValueOf(query.timeframe)

\* the query names a category or a timeframe the service is not configured with
Unknown(query) ==
  \/ AskedCategory(query) \notin Range(svc.given.categories)
  \/ AskedTimeframe(query) \notin Range(svc.given.timeframes)

\* v clamped into [1, maxLimit]
Clamped(v, maxLimit) == IF v < 1 THEN 1 ELSE IF v > maxLimit THEN maxLimit ELSE v

\* C15: for every integer limit of a query (0, negative, in range, above
\* maxLimit) normalizeQuery does not throw because of the limit and returns
\* a limit inside [1, maxLimit]: the requested one when that is in range, the
\* nearest end of the range otherwise, and the configured default, clamped
\* the same way, when none is given; and getLeaderboard returns at most
\* maxLimit entries.
C15_LimitClamped ==
  [][/\ Returned("normalizeQuery") =>
          LET call == ValueOf(svc'.last)
              maxLimit == orElse(svc.given.maxLimit, DEFAULT_MAX_LIMIT)
              defaultLimit == orElse(svc.given.defaultLimit, DEFAULT_LIMIT)
          IN /\ call.out.status # "ok" => Unknown(call.query)
             /\ call.out.status = "ok" =>
                  /\ call.out.limit \in 1..maxLimit
                  /\ call.out.limit =
                       Clamped(orElse(call.query.limit, defaultLimit), maxLimit)
     /\ Returned("getLeaderboard") =>
          LET call == ValueOf(svc'.last)
          IN /\ call.out.status # "ok" => Unknown(call.query)
             /\ call.out.status = "ok" =>
                  Len(call.out.entries) <= orElse(svc.given.maxLimit, DEFAULT_MAX_LIMIT)
    ]_vars

\* a rank structure of three users read with limit 5 by a service whose
\* maxLimit is 2: two entries
C15_Witness ==
  /\ svc.status = "called" /\ svc.last # None
  /\ ValueOf(svc.last).op = "getLeaderboard"
  /\ ValueOf(svc.last).query.limit = Some(5)
  /\ svc.given.maxLimit = Some(2)
  /\ svc.made.store = "redis"
  /\ Cardinality(DOMAIN RedisRank(redis, cfg.kind, "day", "profit")) = 3
  /\ ValueOf(svc.last).out.status = "ok"
  /\ Len(ValueOf(svc.last).out.entries) = 2

\* C16: getLeaderboard and normalizeQuery fail with LeaderboardQueryError
\* whenever the query's orderBy is not a configured category or its timeframe
\* is not a configured timeframe (and only then), before any call is made on
\* the store: the store is as it was and no store call was made.
C16_UnknownQueryRejected ==
  [][(Returned("normalizeQuery") \/ Returned("getLeaderboard")) =>
       LET call == ValueOf(svc'.last)
       IN /\ Unknown(call.query) <=> call.out.status = "LeaderboardQueryError"
          /\ ~Unknown(call.query) <=> call.out.status = "ok"
          /\ Unknown(call.query) =>
               /\ call.out.storeCalls = <<>>
               /\ <<redis, windows, ranks>>' = <<redis, windows, ranks>>
          /\ (~Unknown(call.query) /\ call.op = "getLeaderboard") =>
               call.out.storeCalls # <<>>
    ]_vars

\* getLeaderboard ordered by a category the store holds a rank structure for
\* but the service is not configured with
C16_Witness ==
  /\ svc.status = "called" /\ svc.last # None
  /\ ValueOf(svc.last).op = "getLeaderboard"
  /\ ValueOf(svc.last).query.orderBy = Some("best_streak")
  /\ ValueOf(svc.last).query.timeframe = None
  /\ "u1" \in DOMAIN RedisRank(redis, cfg.kind, "day", "best_streak")
  /\ ValueOf(svc.last).out = LeaderboardQueryError("Unknown category: best_streak")

\* the requester has an entry in the rank structure of the service's store
HasEntry(userId, timeframe, category) ==
  IF svc.made.store = "redis"
    THEN userId \in DOMAIN RedisRank(redis, cfg.kind, timeframe, category)
    ELSE MapHas(MemRank(ranks, timeframe, category), userId)

\* the response of the call carries the requester's standing exactly when
\* the requester has an entry
CarriesStanding(call) ==
  LET out == call.out
      timeframe == AskedTimeframe(call.query)
      category == AskedCategory(call.query)
      descending == orElse(call.query.sort, "desc") = "desc"
      userId == ValueOf(call.currentUserId)
      inPage == {i \in 1..Len(out.entries) : out.entries[i].userId = userId}
  IN IF call.currentUserId # None /\ HasEntry(userId, timeframe, category)
       THEN /\ out.user # None
            /\ ValueOf(out.user).userId = userId
            /\ ValueOf(out.user).rank =
                 ValueOf(storeGetUserRank(svc.made.store, userId, timeframe, category,
                                          descending)).rank
            /\ ValueOf(out.user).scores =
                 storeGetScoresBatch(svc.made.store, timeframe, <<userId>>)[userId]
            /\ inPage # {} => \A i \in inPage : out.entries[i] = ValueOf(out.user)
       ELSE out.user = None

\* C18: whenever getLeaderboard is called with a currentUserId that has an
\* entry in the (timeframe, orderBy) rank structure, the response's user is
\* non-null and carries that user's rank in the requested ordering and their
\* per-category scores, inside the returned page (the same entry as in
\* entries) or outside it; when the user has no entry there, or no rank
\* structure exists, the response's user is null.
C18_RequesterStanding ==
  [][Returned("getLeaderboard") =>
       LET call == ValueOf(svc'.last)
       IN call.out.status = "ok" => CarriesStanding(call)]_vars

\* the same for every requester but the empty identifier
RequesterStandingUnlessEmpty ==
  [][Returned("getLeaderboard") =>
       LET call == ValueOf(svc'.last)
       IN (call.out.status = "ok" /\ call.currentUserId # Some("")) =>
            CarriesStanding(call)]_vars

-----------------------------------------------------------------------------
(* Properties of a category without source keys *)

\* after the step, the reads of the Redis store find no rank structure of
\* (timeframe, category)
ReadsFindNothing(timeframe, category) ==
  /\ \A limit \in Limits, desc \in Orderings :
       redisGetTopRankedUsers(redis', cfg.kind, timeframe, category, limit, desc) = None
  /\ \A u \in ReadUsers, desc \in Orderings :
       redisGetUserRank(redis', cfg.kind, u, timeframe, category, desc) = None
  /\ \A ids \in UserIdLists :
       \A u \in Range(ids) :
         redisGetScoresBatch(redis', cfg.kind, timeframe, ids)[u][category] = 0

\* C19: when resolveBuildSourceKeys returns an empty list for a (category,
\* timeframe), buildRankingFromWindows clears the category's rank structure
\* whatever an earlier rebuild stored there: afterwards getTopRankedUsers and
\* getUserRank return null for it and getScoresBatch reports 0 for the
\* category, while the other categories of the timeframe hold the
\* policy-merge of their source buckets.
C19_EmptySourcesClear ==
  [][\A i \in 1..Len(calls) :
       (CommitStep(i) /\ calls[i].op = "build") =>
         \A c \in CategorySet :
           LET sources == resolveBuildSourceKeys(cfg.kind, calls[i].timeframe, c,
                                                 calls[i].date)
           IN IF sources = <<>>
                THEN /\ ~Exists(redis', resolveRankKey(cfg.kind, calls[i].timeframe, c))
                     /\ ReadsFindNothing(calls[i].timeframe, c)
                ELSE RedisRank(redis', cfg.kind, calls[i].timeframe, c)
                       = PolicyMerge(redis, sources, aggregationForCategory(c))]_vars

\* an ingest, a rebuild of "day" before RetireDate, which stores u1 under
\* best_streak, then a rebuild at RetireDate: best_streak is gone, profit is
\* rebuilt
C19_Witness ==
  /\ cfg.kind = "retiring"
  /\ AllCompleted /\ Len(calls) = 3
  /\ calls[1].op = "ingest" /\ calls[1].seq = 1
  /\ calls[2].op = "build" /\ calls[2].date = 1445 /\ calls[2].seq = 2
  /\ calls[3].op = "build" /\ calls[3].date = RetireDate /\ calls[3].seq = 3
  /\ ZSetOf(redis, windowKey("day", "best_streak")) = ("u1" :> 2)
  /\ ~Exists(redis, resolveRankKey(cfg.kind, "day", "best_streak"))
  /\ RedisRank(redis, cfg.kind, "day", "profit") = ("u1" :> 2)

-----------------------------------------------------------------------------
(* Properties of key formatting *)

\* the keys formatted for a and b collide only where their identifiers agree
Injective(a, b) ==
  LET samePair == a.in.timeframe = b.in.timeframe /\ a.in.category = b.in.category
      sameTriple == /\ a.in.category = b.in.category
                    /\ a.in.token = b.in.token
                    /\ bucketOf(a.in.token, a.in.date) = bucketOf(b.in.token, b.in.date)
  IN /\ a.keys.window = b.keys.window => samePair
     /\ a.keys.rank = b.keys.rank => samePair
     /\ a.keys.memWindow = b.keys.memWindow => samePair
     /\ a.keys.memRank = b.keys.memRank => samePair
     /\ a.keys.bundleRank = b.keys.bundleRank => samePair
     /\ a.keys.bundleWindow = b.keys.bundleWindow => sameTriple
     /\ a.keys.window # b.keys.rank
     /\ a.keys.memWindow # b.keys.memRank
     /\ a.keys.bundleWindow # b.keys.bundleRank

\* C20: within one configuration key formatting is injective for all
\* category and timeframe identifiers, those containing ':' included: two
\* distinct (category, timeframe or unit, time bucket) triples never give the
\* same window key, two distinct (category, timeframe) pairs never the same
\* rank key, and no window key equals a rank key.
C20_KeysInjective ==
  keyed # <<>> => Injective(keyed[1], keyed[2])

\* the same for identifiers without the separator
KeysInjectiveWithoutSeparator ==
  (/\ keyed # <<>>
   /\ {keyed[1].in.timeframe, keyed[1].in.category,
       keyed[2].in.timeframe, keyed[2].in.category} \subseteq SeparatorFree)
    => Injective(keyed[1], keyed[2])

-----------------------------------------------------------------------------
(* Properties of the source keys of a rebuild *)

\* minutes of one unit of a rolling timeframe
UnitMinutes(unit) == IF unit = "hour" THEN MinutesPerHour ELSE MinutesPerDay

\* first minute of the bucket that lies `back` units before the one holding
\* the date
BucketStart(unit, date, back) ==
  ((date \div UnitMinutes(unit)) - back) * UnitMinutes(unit)

\* the configuration is derived from a definition, and the category takes
\* part in the timeframe
Derived == cfg.kind \in {"declarative", "schema"}

\* the keys are those of the n most recent buckets of the timeframe's unit,
\* newest first and all different; the newest is a key of the ingest
RecentBuckets(k, n) ==
  LET spec == TimeframeSpecs[k.timeframe]
      token == tokenForUnit(spec.unit)
  IN /\ Len(k.sources) = n
     /\ \A i \in 1..Len(k.sources) :
          k.sources[i] =
            bundleWindowKey(token, BucketStart(spec.unit, k.date, i - 1), k.category)
     /\ \A i, j \in 1..Len(k.sources) : i # j => k.sources[i] # k.sources[j]
     /\ n > 0 => k.sources[1] \in Range(k.ingest)

\* one key that no reference time changes
FixedKey(k) == k.sources = <<prefix \o ":window:all:" \o k.category>>

\* rollingDates gives the starts of the n most recent buckets, newest first
RecentDates(k, n) ==
  /\ Len(k.dates) = n
  /\ \A i \in 1..Len(k.dates) : k.dates[i] = BucketStart(k.spec.unit, k.date, i - 1)

-----------------------------------------------------------------------------
(* Properties of the query API of a schema runtime *)

\* a call of query.list or query.user has returned or thrown
LbReturned ==
  /\ svc.status = "called" /\ svc.last # None
  /\ ValueOf(svc.last).op \in {"list", "user"}

\* the schema declares the leaderboard for the timeframe
Declared(query) ==
  /\ query.leaderboard \in DOMAIN SchemaBoardTimeframes
  /\ query.timeframe \in Range(SchemaBoardTimeframes[query.leaderboard])

\* a LeaderboardQueryError thrown before any call on the store
RejectedUnread(out) == out.status = "LeaderboardQueryError" /\ out.storeCalls = <<>>

\* C22: query.list and query.user raise LeaderboardQueryError, before any
\* store read, whenever the requested leaderboard is not declared for the
\* requested timeframe, and do not raise for a declared combination.
C22_UndeclaredCombinationRejected ==
  LbReturned =>
    LET r == ValueOf(svc.last)
    IN IF Declared(r.query) THEN r.out.status = "ok" ELSE RejectedUnread(r.out)

\* the same for the leaderboards the schema defines, whatever the timeframe
UndeclaredTimeframeRejected ==
  (LbReturned /\ ValueOf(svc.last).query.leaderboard \in DOMAIN SchemaBoardTimeframes) =>
    LET r == ValueOf(svc.last)
    IN IF Declared(r.query) THEN r.out.status = "ok" ELSE RejectedUnread(r.out)

\* best_streak, declared for "lifetime" alone, queried with "day" after the
\* in-memory store has ranked it there
BestStreakByDayRejected ==
  /\ LbReturned
  /\ ValueOf(svc.last).query.leaderboard = "best_streak"
  /\ ValueOf(svc.last).query.timeframe = "day"
  /\ MemRankExists(ranks, "day", "best_streak")
  /\ RejectedUnread(ValueOf(svc.last).out)

-----------------------------------------------------------------------------
(* Properties of the fluent builder *)

MetricMethods == {"metric", "sum", "max", "min"}
TimeframeMethods == {"timeframe", "rolling", "allTime"}

\* the call adds a key that the builder it is made on has already defined
AddsDefinedKey(state, call) ==
  \/ call.method \in MetricMethods /\ hasOwnProperty(state.metrics, call.key)
  \/ call.method \in TimeframeMethods /\ hasOwnProperty(state.timeframes, call.key)

\* the step is a call that adds a defined key: it throws and the builder
\* keeps its state
DuplicateThrows ==
  LET r == builder'.last[1]
  IN AddsDefinedKey(builder.state, r.call) =>
       /\ r.out.status = "LeaderboardConfigError"
       /\ builder'.state = builder.state

\* number of own properties of the object under the key
Definitions(object, key) == Cardinality({i \in 1..Len(object) : object[i][1] = key})

\* every key the builder holds was added by exactly one call and is held
\* once, and no other key was added
DefinedOnce(b) ==
  /\ \A key \in MetricKeys :
       /\ Definitions(b.state.metrics, key) = b.added[key]
       /\ b.added[key] <= 1
  /\ \A key \in TimeframeKeys :
       /\ Definitions(b.state.timeframes, key) = b.added[key]
       /\ b.added[key] <= 1

\* the defaults build(defaultsArg) goes by
DefaultsOf(state, defaultsArg) == IF defaultsArg # None THEN defaultsArg ELSE state.defaults

\* the step is a build() without defaults, or with defaults that name an
\* undefined metric or timeframe: it throws
BadDefaultsThrow ==
  LET r == builder'.last[1]
      defaults == DefaultsOf(builder.state, r.call.arg)
  IN (/\ r.call.method = "build"
      /\ \/ defaults = None
         \/ ~hasOwnProperty(builder.state.metrics, ValueOf(defaults).metric)
         \/ ~hasOwnProperty(builder.state.timeframes, ValueOf(defaults).timeframe))
       => r.out.status = "LeaderboardConfigError"

\* C23: in the fluent builder every call that adds a metric or a timeframe
\* under a key already defined throws LeaderboardConfigError and leaves the
\* builder it was called on unchanged; after any chain of successful calls
\* each metric key and each timeframe key is defined exactly once; build()
\* throws LeaderboardConfigError without defaults or with defaults that name
\* an undefined metric or timeframe.
C23_BuilderKeysDefinedOnce ==
  [][DuplicateThrows /\ DefinedOnce(builder') /\ BadDefaultsThrow]_vars

\* allTime("day") has thrown on a builder whose "day" is a rolling timeframe,
\* and the builder still holds the rolling one
C23_Witness ==
  /\ builder.last # <<>>
  /\ builder.last[1].call.method = "allTime"
  /\ builder.last[1].call.key = "day"
  /\ builder.last[1].out.status = "LeaderboardConfigError"
  /\ builder.state.timeframes = << <<"day", [type |-> "rolling", unit |-> "hour", size |-> 24]>> >>
  /\ hasOwnProperty(builder.state.metrics, "points")

-----------------------------------------------------------------------------
(* Properties of zero deltas *)

\* every delta the entries give the user for the category is zero or missing
ZeroFor(entries, u, c) ==
  \A i \in 1..Len(entries) : entries[i][1] = u => deltaValue(entries[i][2], c) = 0

\* the window keys of a category, of every configuration
CategoryWindowKeys(c) ==
  {windowKey(tf, c) : tf \in TimeframeSet}
    \cup {bundleWindowKey(token, date, c) : token \in {"h", "all"}, date \in IngestDates}

\* the user's value in an in-memory bucket, none when there is no entry
MemValue(map, key, u) ==
  IF key \in DOMAIN map /\ MapHas(map[key], u) THEN Some(MapGet(map[key], u)) ELSE None

\* the step is ingestWindows(entries, date): where the user's deltas for a
\* category are all zero, no bucket of the category gains or changes an
\* entry of the user
ZeroDeltaIsNoOp(entries, date) ==
  IngestWindows(entries, date) =>
    \A u \in UserSet, c \in CategorySet :
      ZeroFor(entries, u, c) =>
        /\ \A key \in CategoryWindowKeys(c) : zScore(redis', key, u) = zScore(redis, key, u)
        /\ \A tf \in TimeframeSet :
             MemValue(windows', memWindowKey(tf, c), u) = MemValue(windows, memWindowKey(tf, c), u)

\* "u1", whose deltas for profit are all zero, is in no profit bucket and
\* has no rank for profit on either store
ZeroOnlyUserAbsent ==
  /\ \A key \in CategoryWindowKeys("profit") : zScore(redis, key, "u1") = None
  /\ \A tf \in TimeframeSet :
       /\ MemValue(windows, memWindowKey(tf, "profit"), "u1") = None
       /\ \A descending \in BOOLEAN :
            /\ redisGetUserRank(redis, cfg.kind, "u1", tf, "profit", descending) = None
            /\ memGetUserRank(ranks, "u1", tf, "profit", descending) = None

\* C24: a delta of exactly zero, or a missing delta, for a (user, category)
\* pair is a no-op in ingestWindows of both stores: it creates no entry for
\* the user in any window bucket and changes no existing value, so a user
\* whose only deltas for a category are zero is absent from the category's
\* rank structure after a rebuild (getUserRank returns null).
C24_ZeroDeltaNoOp ==
  /\ []ZeroOnlyUserAbsent
  /\ [][\A call \in ZeroIngestCalls : nIngest' = nIngest + 1 => ZeroDeltaIsNoOp(call[1], call[2])]_vars

\* after two ingests and a rebuild of "day", "u1" is ranked for best_streak
\* and "u2" for profit on both stores, and "u1" has no rank for profit
C24_Witness ==
  /\ lastBuild["day"].done
  /\ redisGetUserRank(redis, cfg.kind, "u1", "day", "best_streak", TRUE) # None
  /\ memGetUserRank(ranks, "u1", "day", "best_streak", TRUE) # None
  /\ redisGetUserRank(redis, cfg.kind, "u2", "day", "profit", TRUE) # None
  /\ memGetUserRank(ranks, "u2", "day", "profit", TRUE) # None
  /\ redisGetUserRank(redis, cfg.kind, "u1", "day", "profit", TRUE) = None
  /\ memGetUserRank(ranks, "u1", "day", "profit", TRUE) = None

-----------------------------------------------------------------------------
(* Properties of what ingest and rebuild leave alone *)

\* arguments of the reads compared across a step
FrameTops == {1, FullLimit} \X BOOLEAN
FrameRanks == {"u1", "u3"} \X BOOLEAN
FrameBatches == { <<"u2", "u1">>, <<"u3">> }

\* what getTopRankedUsers and getUserRank return for a category of a
\* timeframe, and getScoresBatch for the timeframe, on the Redis store and on
\* the in-memory store
RedisReads(db, kind, tf, c) ==
  [top |-> [a \in FrameTops |-> redisGetTopRankedUsers(db, kind, tf, c, a[1], a[2])],
   rank |-> [a \in FrameRanks |-> redisGetUserRank(db, kind, a[1], tf, c, a[2])]]

RedisBatches(db, kind, tf) ==
  [ids \in FrameBatches |-> redisGetScoresBatch(db, kind, tf, ids)]

MemReads(rankMap, tf, c) ==
  [top |-> [a \in FrameTops |-> memGetTopRankedUsers(rankMap, tf, c, a[1], a[2])],
   rank |-> [a \in FrameRanks |-> memGetUserRank(rankMap, a[1], tf, c, a[2])]]

MemBatches(rankMap, tf) ==
  [ids \in FrameBatches |-> memGetScoresBatch(rankMap, tf, ids)]

\* what getTopRankedUsers and getUserRank return when the rank key is missing
NoRankReads == [top |-> [a \in FrameTops |-> None], rank |-> [a \in FrameRanks |-> None]]

\* the step changes nothing the reads of the timeframe return
ReadsKept(tf) ==
  /\ \A c \in CategorySet :
       /\ RedisReads(redis', cfg.kind, tf, c) = RedisReads(redis, cfg.kind, tf, c)
       /\ MemReads(ranks', tf, c) = MemReads(ranks, tf, c)
  /\ RedisBatches(redis', cfg.kind, tf) = RedisBatches(redis, cfg.kind, tf)
  /\ MemBatches(ranks', tf) = MemBatches(ranks, tf)

\* as ReadsKept, but a Redis rank key in the last second of its TTL may
\* vanish, and the reads then find nothing for its category
ReadsKeptOrExpired(tf) ==
  LET before == RedisBatches(redis, cfg.kind, tf)
      after == RedisBatches(redis', cfg.kind, tf)
  IN /\ \A c \in CategorySet :
          /\ \/ /\ RedisReads(redis', cfg.kind, tf, c) = RedisReads(redis, cfg.kind, tf, c)
                /\ \A ids \in FrameBatches : \A u \in Range(ids) :
                     after[ids][u][c] = before[ids][u][c]
             \/ /\ ttl(redis, resolveRankKey(cfg.kind, tf, c)) = 1
                /\ RedisReads(redis', cfg.kind, tf, c) = NoRankReads
                /\ \A ids \in FrameBatches : \A u \in Range(ids) : after[ids][u][c] = 0
          /\ MemReads(ranks', tf, c) = MemReads(ranks, tf, c)
     /\ MemBatches(ranks', tf) = MemBatches(ranks, tf)

\* the step is a rebuild: no window bucket changes, and no rank structure of
\* another timeframe
RebuildTouchesOwnRanks(call) ==
  BuildStep(call) =>
    /\ windows' = windows
    /\ \A key \in (DOMAIN redis \cup DOMAIN redis')
                   \ {resolveRankKey(cfg.kind, call[1], c) : c \in CategorySet} :
         key \in DOMAIN redis /\ key \in DOMAIN redis' /\ redis'[key] = redis[key]
    /\ \A tf \in TimeframeSet \ {call[1]} :
         /\ ReadsKept(tf)
         /\ MemRanks(ranks', tf) = MemRanks(ranks, tf)
         /\ \A c \in CategorySet : MemRankExists(ranks', tf, c) = MemRankExists(ranks, tf, c)

\* C25 (as stated): ingestWindows never changes any rank structure: after a
\* rebuild the three reads keep returning what they returned right after
\* it until the next rebuild of the timeframe commits; and
\* buildRankingFromWindows(timeframe) changes neither any window bucket nor
\* the rank structures of any other timeframe.
C25_ReadsKeptUntilRebuild ==
  [][/\ IngestStep => \A tf \in TimeframeSet : ReadsKept(tf)
     /\ \A tf \in TimeframeSet :
          (lastBuild[tf].done /\ ~IngestStep /\ ~RebuildOf(tf)) => ReadsKept(tf)
     /\ \A call \in BuildCalls : RebuildTouchesOwnRanks(call)]_vars

\* C25 (amended): the same, but on the Redis store the reads keep their
\* results only until the next rebuild of the timeframe commits or the TTL
\* of the rank key runs out, whichever is first; from then on they find
\* nothing.  No ingest step changes what a read returns.
C25_ReadsKeptUntilRebuildOrExpiry ==
  [][/\ IngestStep => \A tf \in TimeframeSet : ReadsKept(tf)
     /\ \A tf \in TimeframeSet :
          (lastBuild[tf].done /\ ~IngestStep /\ ~RebuildOf(tf)) => ReadsKeptOrExpired(tf)
     /\ \A call \in BuildCalls : RebuildTouchesOwnRanks(call)]_vars

\* "u1" was ranked with 2 by a rebuild of "day"; a later ingest raised the
\* window bucket to 4 and the reads still return 2 on both stores
C25_Witness ==
  /\ cfg.kind = "default"
  /\ lastBuild["day"].done /\ lastBuild["day"].dirty
  /\ zScore(redis, windowKey("day", "profit"), "u1") = Some(4)
  /\ redisGetUserRank(redis, cfg.kind, "u1", "day", "profit", TRUE)
       = Some([userId |-> "u1", score |-> 2, rank |-> 1])
  /\ memGetUserRank(ranks, "u1", "day", "profit", TRUE)
       = Some([userId |-> "u1", score |-> 2, rank |-> 1])
  /\ MemValue(windows, memWindowKey("day", "profit"), "u1") = Some(4)

-----------------------------------------------------------------------------
(* Properties of rolling and all-time timeframes over time *)

\* the bucket of the reference time t is among the buckets the timeframe
\* covers at the reference time of the rebuild: every bucket for an all-time
\* timeframe, the size most recent ones for a rolling one
Covers(tf, rebuilt, t) ==
  LET spec == TimeframeSpecs[tf]
  IN \/ spec.type = "all"
     \/ /\ spec.type = "rolling"
        /\ (rebuilt \div UnitMinutes(spec.unit)) - (t \div UnitMinutes(spec.unit))
             \in 0..(spec.size - 1)

\* the ingests completed so far whose reference time the rebuild covers
Contributing(tf, rebuilt) ==
  {i \in 1..Len(calls) :
     calls[i].op = "ingest" /\ calls[i].pc = "done" /\ Covers(tf, rebuilt, calls[i].date)}

\* the rank structure that k ingests of RollingBatch make under the policy
\* of the category
RankOfIngests(c, k) ==
  LET users == {u \in UserSet :
                  k > 0 /\ \E e \in Range(RollingBatch) : e[1] = u /\ deltaValue(e[2], c) # 0}
      delta(u) == deltaValue((CHOOSE e \in Range(RollingBatch) : e[1] = u)[2], c)
  IN [u \in users |-> IF aggregationForCategory(c) = "sum" THEN k * delta(u) ELSE delta(u)]

\* the step completes rebuild i: the rank structure of each of the given
\* categories holds the deltas of exactly the ingests the rebuild covers
RebuiltFromCovered(i, categories) ==
  (CommitStep(i) /\ calls[i].op = "build") =>
    \A c \in categories :
      RedisRank(redis', cfg.kind, calls[i].timeframe, c)
        = RankOfIngests(c, Cardinality(Contributing(calls[i].timeframe, calls[i].date)))

-----------------------------------------------------------------------------
(* Properties of the keys an ingest targets *)

\* the window tokens of the timeframes a category takes part in
TokensUsed(kind, c) ==
  {IF timeframeSpec(kind, tf).type = "all" THEN "all"
   ELSE tokenForUnit(timeframeSpec(kind, tf).unit) : tf \in Range(BoardTimeframes(kind, c))}

\* one key per token
TargetKeys(kind, c, date) == {bundleWindowKey(token, date, c) : token \in TokensUsed(kind, c)}

\* the non-zero deltas the entries give the user for the category, by entry
DeltasOf(entries, u, c) ==
  [i \in {j \in 1..Len(entries) :
            entries[j][1] = u /\ deltaValue(entries[j][2], c) # 0} |->
     deltaValue(entries[i][2], c)]

\* the user's score in the bucket after the deltas were applied once each,
\* under the policy of the category
AppliedOnce(old, deltas, strategy) ==
  IF DOMAIN deltas = {} THEN old
  ELSE IF strategy = "sum"
    THEN Some((IF old = None THEN 0 ELSE ValueOf(old)) + SumOver(DOMAIN deltas, deltas))
  ELSE LET values == {deltas[i] : i \in DOMAIN deltas}
                       \cup (IF old = None THEN {} ELSE {ValueOf(old)})
       IN Some(IF strategy = "max" THEN SetMax(values) ELSE SetMin(values))

\* the step is ingestWindows(entries, date) on a derived configuration
IngestsOncePerToken(entries, date) ==
  IngestWindows(entries, date) =>
    /\ \A c \in CategorySet :
         /\ Cardinality(TargetKeys(cfg.kind, c, date)) = Cardinality(TokensUsed(cfg.kind, c))
         /\ Range(resolveIngestKeys(cfg.kind, Timeframes[1], c, date))
              = TargetKeys(cfg.kind, c, date)
         /\ \A tf \in TimeframeSet \ {Timeframes[1]} :
              resolveIngestKeys(cfg.kind, tf, c, date) = <<>>
         /\ \A key \in TargetKeys(cfg.kind, c, date), u \in UserSet :
              zScore(redis', key, u)
                = AppliedOnce(zScore(redis, key, u), DeltasOf(entries, u, c),
                              aggregationForCategory(c))
    /\ \A key \in (DOMAIN redis \cup DOMAIN redis')
                   \ UNION {TargetKeys(cfg.kind, c, date) : c \in CategorySet} :
         key \in DOMAIN redis /\ key \in DOMAIN redis' /\ redis'[key].z = redis[key].z

\* C27: with a configuration derived by createBundleFromDeclarative or
\* bundleFromSchema one ingest call applies each entry's non-zero delta for
\* a category exactly once to each window key it targets, and it targets
\* exactly one key per distinct window token of the timeframes concerned,
\* however many timeframes share a unit: only the first timeframe resolves
\* ingest keys, so no delta is counted twice.
C27_OneKeyPerToken ==
  [][\A call \in IngestCalls :
       nIngest' = nIngest + 1 => IngestsOncePerToken(call[1], call[2])]_vars

\* two ingests of "u1" with profit 2 under the definition whose two
\* timeframes share the hour: the one hourly bucket holds 4
C27_Witness ==
  /\ cfg.kind = "sharing"
  /\ nIngest = 2
  /\ TokensUsed(cfg.kind, "profit") = {"h"}
  /\ zScore(redis, bundleWindowKey("h", 1410, "profit"), "u1") = Some(4)
  /\ DOMAIN redis = {bundleWindowKey("h", 1410, c) : c \in CategorySet}

-----------------------------------------------------------------------------
(* C28: expiry of the rank structure *)

\* the reads of the Redis store find nothing under (timeframe, category)
RankGone(timeframe, category) ==
  /\ ~Exists(redis, resolveRankKey(cfg.kind, timeframe, category))
  /\ \A descending \in BOOLEAN :
       /\ redisGetTopRankedUsers(redis, cfg.kind, timeframe, category,
                                 FullLimit, descending) = None
       /\ \A u \in UserSet :
            redisGetUserRank(redis, cfg.kind, u, timeframe, category, descending) = None
  /\ \A u \in UserSet :
       redisGetScoresBatch(redis, cfg.kind, timeframe, Users)[u][category] = 0

\* the reads of the Redis store return the scores the rebuild stored
RankReadsAre(timeframe, category, scores) ==
  /\ RedisRank(redis, cfg.kind, timeframe, category) = scores
  /\ \A descending \in BOOLEAN :
       LET top == redisGetTopRankedUsers(redis, cfg.kind, timeframe, category,
                                         FullLimit, descending)
       IN /\ scores # EmptyMap =>
               /\ top # None
               /\ IsTopOf(ValueOf(top), scores, FullLimit, descending)
          /\ \A u \in DOMAIN scores :
               LET row == redisGetUserRank(redis, cfg.kind, u, timeframe, category,
                                           descending)
               IN /\ row # None
                  /\ ValueOf(row).score = scores[u]
                  /\ ValueOf(top)[ValueOf(row).rank].userId = u
  /\ \A u \in UserSet :
       redisGetScoresBatch(redis, cfg.kind, timeframe, Users)[u][category]
         = IF u \in DOMAIN scores THEN scores[u] ELSE 0

TtlElapsed(timeframe) ==
  /\ lastBuild[timeframe].ttlSeconds > 0
  /\ lastBuild[timeframe].elapsed >= lastBuild[timeframe].ttlSeconds

\* C28: once the ttlSeconds (> 0) of the last rebuild of a timeframe have
\* elapsed its rank structures are gone: getTopRankedUsers and getUserRank
\* return null and getScoresBatch returns 0.  Until then the reads return
\* what the rebuild stored and the key expires ttlSeconds after the rebuild;
\* after a rebuild with ttlSeconds <= 0 the key has no expiry.
C28_RankExpiresAfterTtl ==
  \A tf \in TimeframeSet : lastBuild[tf].done =>
    \A c \in CategorySet :
      LET key == resolveRankKey(cfg.kind, tf, c)
      IN IF TtlElapsed(tf) THEN RankGone(tf, c)
         ELSE /\ RankReadsAre(tf, c, lastBuild[tf].redisRanks[c])
              /\ Exists(redis, key) =>
                   ttl(redis, key) =
                     IF lastBuild[tf].ttlSeconds > 0
                       THEN lastBuild[tf].ttlSeconds - lastBuild[tf].elapsed
                       ELSE NoExpiry

\* a rank structure that held scores is gone two seconds after its rebuild,
\* while one rebuilt without a TTL is still read
C28_Witness ==
  \E tf, other \in TimeframeSet : \E c \in CategorySet :
    /\ lastBuild[tf].done /\ TtlElapsed(tf)
    /\ lastBuild[tf].redisRanks[c] # EmptyMap
    /\ redisGetTopRankedUsers(redis, cfg.kind, tf, c, FullLimit, TRUE) = None
    /\ lastBuild[other].done /\ lastBuild[other].ttlSeconds <= 0
    /\ lastBuild[other].elapsed >= 2
    /\ lastBuild[other].redisRanks[c] # EmptyMap
    /\ redisGetTopRankedUsers(redis, cfg.kind, other, c, FullLimit, TRUE) # None

-----------------------------------------------------------------------------
(* C29: the scores of a getLeaderboard response against its ranking *)

\* a getLeaderboard call has returned a response
PageReturned ==
  /\ svc.status = "called" /\ svc.last # None
  /\ ValueOf(svc.last).op = "getLeaderboard" /\ ValueOf(svc.last).pc = "done"
  /\ ValueOf(svc.last).out.status = "ok"

\* C29: in every getLeaderboard response each entry's scores[orderBy] is the
\* score the entry was ranked by, the entries are sorted by scores[orderBy]
\* in the direction asked with ranks 1..n, and so is the requester's entry,
\* whatever ingests and rebuilds commit between the store calls of the service.
C29_EntryScoresAreRankingScores ==
  PageReturned =>
    LET call == ValueOf(svc.last)
        entries == call.out.entries
        orderBy == call.q.orderBy
        better(a, b) == IF call.q.sort = "desc" THEN a > b ELSE a < b
    IN /\ Len(entries) = Len(call.rankedUsers)
       /\ \A i \in 1..Len(entries) :
            /\ entries[i].rank = i
            /\ entries[i].userId = call.rankedUsers[i].userId
            /\ entries[i].scores[orderBy] = call.rankedUsers[i].score
       /\ \A i, j \in 1..Len(entries) :
            i < j => ~better(entries[j].scores[orderBy], entries[i].scores[orderBy])
       /\ (call.out.user # None /\ call.ranked # None) =>
            ValueOf(call.out.user).scores[orderBy] = ValueOf(call.ranked).score

-----------------------------------------------------------------------------
(* C30: the limit of query.list against the limit of the service *)

\* query.list has returned rows
ListReturned ==
  /\ LbReturned
  /\ ValueOf(svc.last).op = "list" /\ ValueOf(svc.last).out.status = "ok"

\* the query of the service that asks what the list query asks
ServiceQueryOf(query) ==
  [orderBy |-> Some(query.leaderboard), timeframe |-> Some(query.timeframe),
   sort |-> query.direction, limit |-> query.limit]

\* the limit list asked the store for is the limit normalizeQuery yields
ListLimitIsServiceLimit ==
  LET call == ValueOf(svc.last)
  IN call.out.limit = normalizeQuery(svc.made, ServiceQueryOf(call.query)).limit

\* C30: the limit query.list requests from the store is the one
\* normalizeQuery of the service derived from the same definition yields,
\* without a limit in the query (defaults.limit clamped into
\* [1, defaults.maxLimit]) and with one.
C30_ListLimitMatchesService ==
  ListReturned =>
    /\ ListLimitIsServiceLimit
    /\ ValueOf(svc.last).query.limit = None =>
         ValueOf(svc.last).out.limit =
           Max2(1, Min2(orElse(svc.defaults.maxLimit, DEFAULT_MAX_LIMIT),
                        orElse(svc.defaults.limit, DEFAULT_LIMIT)))

\* with a limit in the query, or without defaults.limit in the schema, list
\* and the service agree
ExplicitLimitMatchesService ==
  (/\ ListReturned
   /\ ValueOf(svc.last).query.limit # None \/ svc.defaults.limit = None)
    => ListLimitIsServiceLimit

====
